---- MODULE Spec2Model ----
(***************************************************************************)
(* Model of the ministry-tracker local store.                             *)
(*                                                                         *)
(*   src/lib/db.ts         people and notes tables (Dexie), their helpers  *)
(*   src/unnamed/part_003  territories store (idb), its helpers            *)
(*   src/unnamed/part_001  PersonForm.handleSubmit                         *)
(*   src/unnamed/part_000  NoteForm.handleSubmit                           *)
(*   src/app/settings/page.tsx  export / import / territory handlers       *)
(*                                                                         *)
(* Every helper of db.ts is an async function: each `await` of a table     *)
(* request is one transaction, and other callbacks of the event loop may   *)
(* run between two awaits.  An action below is one such atomic stretch.    *)
(***************************************************************************)
EXTENDS Integers, Sequences, FiniteSets, TLC

(* ---------------------------------------------------------------------- *)
(* Bounds of the model                                                     *)
(* ---------------------------------------------------------------------- *)
\* how many keys the people table's key generator hands out
MaxPeople == 2
\* how many keys the notes table's key generator hands out
MaxNotes == 2
\* the wall clock reads 0..MaxTime
MaxTime == 1

PersonIds == 1..MaxPeople
NoteIds == 1..MaxNotes
Times == 0..MaxTime

VARIABLES
  people,        \* db.people: id -> stored Person object
  nextPersonId,  \* key generator of db.people ('++id')
  notes,         \* db.notes: id -> stored Note object
  nextNoteId,    \* key generator of db.notes ('++id')
  clock,         \* what `new Date()` reads
  usedIds,       \* history: every id that has ever been a key of db.people
  delCalls,      \* deletePerson calls between their two awaits
  gpwCalls,      \* getPersonWithNotes calls between their two awaits
  gapCalls,      \* getAllPeople calls between their two awaits
  ret,           \* what the call that completed last resolved with
  exportFile,    \* the JSON text written by the last export
  importCalls,   \* the import handler's loop: the contacts still to add
  submitCalls,   \* PersonForm.handleSubmit calls between save and addNote
  territories,   \* the 'territories' object store: id -> stored Territory
  nextTerritoryId, \* key generator of the store (autoIncrement)
  dbPromise,     \* part_003 line 26: null, or how the cached promise settled
  addCalls,      \* addTerritory calls waiting between two attempts
  address,       \* PersonForm: the text of the address field (formData.address)
  suggestions,   \* PersonForm: addressSuggestions
  debounced,     \* PersonForm: the argument of the pending debounced call
  fetches,       \* PersonForm: fetchAddressSuggestions calls in flight
  issued,        \* history: how many suggestion fetches went to the network
  submitting,    \* PersonForm.handleSubmit before it saves
  locating,      \* PersonForm.getCurrentLocation: request, timer, flags
  isGeocoding,   \* PersonForm: isGeocoding
  deleteAll,     \* settings page: the 'Delete All Contacts' handler
  home           \* contact list page: sortByLocation, userLocation, ...

storeVars == <<people, nextPersonId, notes, nextNoteId, clock, usedIds>>
callVars == <<delCalls, gpwCalls, gapCalls, ret, exportFile, importCalls, submitCalls>>
terrVars == <<territories, nextTerritoryId, dbPromise, addCalls>>
formVars == <<address, suggestions, debounced, fetches, issued, submitting, locating,
              isGeocoding>>
pageVars == <<deleteAll, home>>
vars == <<storeVars, callVars, terrVars, formVars, pageVars>>

(* ---------------------------------------------------------------------- *)
(* Data                                                                    *)
(* ---------------------------------------------------------------------- *)
\* formData.location of a form in which no place was chosen (part_001 line 39)
NoLocation == << >>

\* what the person form and the import hand to addPerson: no id, no dates
PersonInputs ==
  { [name |-> "Bo", address |-> "1 Elm St", phone |-> "5550100000", email |-> "",
     location |-> NoLocation] }

\* Partial<Omit<Person, 'id' | 'createdAt'>>: the fields an update names
UpdateInputs ==
  { [name |-> "Al", phone |-> ""] }

\* trimmed note contents of at least 5 characters
NoteContents == { "Met at door" }

\* the store's representation of "no nested notes property"
NoNotes == << >>

\* Date.prototype.toJSON: a Date becomes an ISO string, which JSON.parse
\* gives back as a string, not as a Date
Iso(t) == <<"iso", t>>

Range(s) == { s[i] : i \in DOMAIN s }

\* `r.f`, or d when the object has no property f
Field(r, f, d) == IF f \in DOMAIN r THEN r[f] ELSE d

\* the rows of a table whose keys are in S, as a function
Restrict(table, S) == [k \in S |-> table[k]]

\* collation of the name index (String order of the names the model uses)
NameRank(n) ==
  CASE n = "Al" -> 1
    [] n = "Bo" -> 2
    [] n = "Cy" -> 3
    [] OTHER -> 4

(* ---------------------------------------------------------------------- *)
(* src/lib/db.ts: pure parts                                               *)
(* ---------------------------------------------------------------------- *)
\* addPerson, lines 45-50: { ...person, createdAt: now, updatedAt: now }.
\* The key is not part of the row here: see AddPersonKey.
NewPersonRow(person, now) ==
  [ name      |-> Field(person, "name", ""),
    address   |-> Field(person, "address", ""),
    phone     |-> Field(person, "phone", ""),
    email     |-> Field(person, "email", ""),
    notes     |-> Field(person, "notes", NoNotes),
    location  |-> Field(person, "location", NoLocation),
    createdAt |-> now,
    updatedAt |-> now ]

\* Table.add on a '++id' store: an object that carries an id is stored under
\* that id, any other object under the next key of the generator
AddPersonKey(person) ==
  IF "id" \in DOMAIN person THEN person.id ELSE nextPersonId

\* the changes with createdAt refreshed beside updatedAt
UpdateChangesTouchCreatedAt(updates, now) ==
  [f \in DOMAIN updates \cup {"updatedAt", "createdAt"} |->
     IF f \in {"updatedAt", "createdAt"} THEN now ELSE updates[f]]

\* updatePerson, lines 54-57: the changes handed to Table.update
UpdateChanges(updates, now) ==
  [f \in DOMAIN updates \cup {"updatedAt"} |->
     IF f = "updatedAt" THEN now ELSE updates[f]]

\* Table.update: the changes are merged into the stored row
ApplyChanges(row, changes) ==
  [f \in DOMAIN row \cup DOMAIN changes |->
     IF f \in DOMAIN changes THEN changes[f] ELSE row[f]]

\* addNote, lines 68-71: { ...note, createdAt: new Date() }
NewNoteRow(note, now) ==
  [ personId |-> note.personId, content |-> note.content, createdAt |-> now ]

\* db.notes.where('personId').equals(id): the keys, in primary-key order
NoteKeysOf(id) == { k \in DOMAIN notes : notes[k].personId = id }

RECURSIVE KeysAscending(_)
KeysAscending(S) ==
  IF S = {} THEN << >>
  ELSE LET k == CHOOSE x \in S : \A y \in S : x <= y
       IN <<k>> \o KeysAscending(S \ {k})

\* a Note as a query returns it: the row with its key
NoteObject(k) ==
  [ id |-> k, personId |-> notes[k].personId, content |-> notes[k].content,
    createdAt |-> notes[k].createdAt ]

\* insertion of x into a sequence sorted by createdAt, after its equals
RECURSIVE InsertByCreatedAt(_, _)
InsertByCreatedAt(x, s) ==
  IF s = << >> THEN <<x>>
  ELSE IF x.createdAt < Head(s).createdAt THEN <<x>> \o s
  ELSE <<Head(s)>> \o InsertByCreatedAt(x, Tail(s))

\* Collection.sortBy('createdAt'): a stable sort of the collection's array
RECURSIVE SortByCreatedAt(_)
SortByCreatedAt(s) ==
  IF s = << >> THEN << >>
  ELSE InsertByCreatedAt(s[Len(s)], SortByCreatedAt(SubSeq(s, 1, Len(s) - 1)))

\* the query with toArray() in place of sortBy('createdAt'): key order
NotesQueryUnsorted(id) ==
  LET keys == KeysAscending(NoteKeysOf(id))
  IN [i \in DOMAIN keys |-> NoteObject(keys[i])]

\* lines 78-81 and 93-96: where('personId').equals(id).sortBy('createdAt')
NotesQuery(id) ==
  LET keys == KeysAscending(NoteKeysOf(id))
  IN SortByCreatedAt([i \in DOMAIN keys |-> NoteObject(keys[i])])

\* lines 83-86 and 97: { ...person, notes }
WithNotes(id, row, ns) ==
  [ id |-> id, name |-> row.name, address |-> row.address, phone |-> row.phone,
    email |-> row.email, location |-> row.location,
    createdAt |-> row.createdAt, updatedAt |-> row.updatedAt,
    notes |-> ns ]

\* the array in primary-key order, as db.people.toArray() gives it
RECURSIVE OrderByKey(_)
OrderByKey(S) ==
  IF S = {} THEN << >>
  ELSE LET k == CHOOSE x \in S : \A y \in S : x <= y
       IN <<[id |-> k, row |-> people[k]]>> \o OrderByKey(S \ {k})

\* db.people.orderBy('name').toArray(): name order, equal names by key
RECURSIVE OrderByName(_)
OrderByName(S) ==
  IF S = {} THEN << >>
  ELSE LET k == CHOOSE x \in S : \A y \in S :
                  \/ NameRank(people[x].name) < NameRank(people[y].name)
                  \/ /\ NameRank(people[x].name) = NameRank(people[y].name)
                     /\ x <= y
       IN <<[id |-> k, row |-> people[k]]>> \o OrderByName(S \ {k})

(* ---------------------------------------------------------------------- *)
(* src/lib/db.ts: the helpers, one atomic stretch each                     *)
(* ---------------------------------------------------------------------- *)
\* Table.add rejects (ConstraintError) an object whose key is already stored
AddPersonRejected(person) == AddPersonKey(person) \in DOMAIN people

\* addPerson(person): db.people.add; resolves with AddPersonKey(person)
addPerson(person) ==
  LET key == AddPersonKey(person)
  IN /\ key \in PersonIds
     /\ ~AddPersonRejected(person)
     /\ people' = (key :> NewPersonRow(person, clock)) @@ people
     /\ nextPersonId' = IF key >= nextPersonId THEN key + 1 ELSE nextPersonId
     /\ usedIds' = usedIds \cup {key}

\* what db.people.update resolves with: the number of rows it updated
UpdateCount(id) == IF id \in DOMAIN people THEN 1 ELSE 0

\* updatePerson(id, updates): db.people.update; an absent id updates nothing
updatePerson(id, updates) ==
  /\ people' = IF id \in DOMAIN people
               THEN [people EXCEPT ![id] = ApplyChanges(@, UpdateChanges(updates, clock))]
               ELSE people
  /\ UNCHANGED <<nextPersonId, usedIds>>

\* addNote(note): db.notes.add; resolves with the new key.  No look-up of
\* note.personId in db.people precedes the add.
addNote(note) ==
  /\ nextNoteId \in NoteIds
  /\ notes' = (nextNoteId :> NewNoteRow(note, clock)) @@ notes
  /\ nextNoteId' = nextNoteId + 1

\* deletePerson without its line 62: the person's notes are left behind
deletePersonKeepsNotes(id) == UNCHANGED <<notes, nextNoteId>>

\* deletePerson, line 62: await db.notes.where('personId').equals(id).delete()
deletePersonNotes(id) ==
  /\ notes' = Restrict(notes, DOMAIN notes \ NoteKeysOf(id))
  /\ UNCHANGED nextNoteId

\* deletePerson without its line 64: the person's row is left in db.people
deletePersonRowSkipped(id) == UNCHANGED <<people, nextPersonId, usedIds>>

\* deletePerson, line 64: return db.people.delete(id)
deletePersonRow(id) ==
  /\ people' = Restrict(people, DOMAIN people \ {id})
  /\ UNCHANGED <<nextPersonId, usedIds>>

\* getPersonWithNotes, lines 78-86, on the person read at line 75
getPersonWithNotesResult(id, row) == <<WithNotes(id, row, NotesQuery(id))>>

\* getAllPeople, lines 91-100, on the array read at line 90
getAllPeopleResult(list) ==
  [i \in DOMAIN list |-> WithNotes(list[i].id, list[i].row, NotesQuery(list[i].id))]

\* the NotFound sentinel of getPersonWithNotes (null), as a result
Null == << >>

\* ret while a handler that was entered has not completed: the result of the
\* call before it has been consumed by its caller
NoResult == [op |-> "none"]

(* ---------------------------------------------------------------------- *)
(* The callers: event handlers of the pages                                *)
(* ---------------------------------------------------------------------- *)
\* at most this many calls of one helper are between their awaits at once
MaxPending == 1

\* no call is between two of its awaits
Quiet ==
  /\ delCalls = {} /\ gpwCalls = {} /\ gapCalls = {}
  /\ importCalls = {} /\ submitCalls = {}

\* the wall clock: it may be set back as well as advance
Tick ==
  /\ clock' \in Times \ {clock}
  /\ UNCHANGED <<pageVars, formVars, terrVars, people, nextPersonId, notes, nextNoteId, usedIds, callVars>>

\* geocodeAddress as handleSubmit sees it: a result, null, or a throw
GeocodeOutcomes == {"result", "none", "error"}
FormattedAddress == "100 Main St, Austin, TX"
\* result.coordinates of the first candidate (geocode.ts lines 124-127)
ResultCoordinates == <<30, -97>>

\* finalData of a handleSubmit that forgets the location of the form when
\* the geocoder gives nothing
FinalDataWithoutFallback(formData, geo) ==
  IF geo = "result"
  THEN [formData EXCEPT !.address = FormattedAddress, !.location = ResultCoordinates]
  ELSE [formData EXCEPT !.location = NoLocation]

\* PersonForm.handleSubmit, part_001 lines 575-601: finalData
FinalData(formData, geo) ==
  IF geo = "result"
  THEN [formData EXCEPT !.address = FormattedAddress, !.location = ResultCoordinates]
  ELSE formData

\* what handleSubmit does once the person is saved, lines 611-619
AfterSave(personId, noteContent, updated) ==
  IF noteContent # ""
  THEN /\ submitCalls' = submitCalls \cup {[personId |-> personId, content |-> noteContent]}
       /\ ret' = NoResult
  ELSE /\ ret' = [op |-> "submit", id |-> personId, updated |-> updated, outcome |-> "success"]
       /\ UNCHANGED submitCalls

\* handleSubmit of a form without initialData.id, once geocodeAddress has
\* settled as geo: addPerson, lines 607-609
SaveNew(formData, noteContent, geo) ==
  /\ Cardinality(submitCalls) < MaxPending
  /\ addPerson(FinalData(formData, geo))
  /\ AfterSave(AddPersonKey(FinalData(formData, geo)), noteContent, 1)
  /\ UNCHANGED <<terrVars, notes, nextNoteId, clock, delCalls, gpwCalls, gapCalls,
                 exportFile, importCalls>>

\* handleSubmit of a form without initialData.id, its geocoding included
SubmitNew(formData, noteContent, geo) ==
  SaveNew(formData, noteContent, geo) /\ UNCHANGED <<pageVars, formVars>>

\* handleSubmit of an edit form: updatePerson(initialData.id, finalData),
\* lines 604-606; the number updatePerson resolves with is not looked at
SaveEdit(id, formData, noteContent, geo) ==
  /\ Cardinality(submitCalls) < MaxPending
  /\ id \in usedIds
  /\ updatePerson(id, FinalData(formData, geo))
  /\ AfterSave(id, noteContent, UpdateCount(id))
  /\ UNCHANGED <<terrVars, notes, nextNoteId, clock, delCalls, gpwCalls, gapCalls,
                 exportFile, importCalls>>

\* handleSubmit of an edit form, its geocoding included
SubmitEdit(id, formData, noteContent, geo) ==
  SaveEdit(id, formData, noteContent, geo) /\ UNCHANGED <<pageVars, formVars>>

\* handleSubmit, lines 611-619: addNote({ personId, content }), then onSuccess
SubmitNote ==
  \E c \in submitCalls :
    /\ addNote([personId |-> c.personId, content |-> c.content])
    /\ submitCalls' = submitCalls \ {c}
    /\ ret' = [op |-> "submit", id |-> c.personId, updated |-> 1, outcome |-> "success"]
    /\ UNCHANGED <<pageVars, formVars, terrVars, people, nextPersonId, usedIds, clock, delCalls, gpwCalls,
                   gapCalls, exportFile, importCalls>>

\* NoteForm.handleSubmit, part_000 lines 95-99, on the page of a person that
\* was loaded
NoteFormSubmit(personId, content) ==
  /\ personId \in usedIds
  /\ addNote([personId |-> personId, content |-> content])
  /\ ret' = [op |-> "addNote", id |-> personId, val |-> nextNoteId]
  /\ UNCHANGED <<pageVars, formVars, terrVars, people, nextPersonId, usedIds, clock, delCalls, gpwCalls,
                 gapCalls, exportFile, importCalls, submitCalls>>

\* a call of updatePerson with the fields it is to change
UpdatePersonCall(id, updates) ==
  /\ updatePerson(id, updates)
  /\ ret' = [op |-> "updatePerson", id |-> id, val |-> UpdateCount(id),
             outcome |-> "resolved"]
  /\ UNCHANGED <<pageVars, formVars, terrVars, notes, nextNoteId, clock, delCalls, gpwCalls, gapCalls,
                 exportFile, importCalls, submitCalls>>

\* deletePerson(id) up to its first await, for a person that was loaded
\* (person page handleDelete, or one of the calls of 'Delete All Contacts')
DeleteStart(id) ==
  /\ id \in usedIds
  /\ id \notin delCalls
  /\ deletePersonNotes(id)
  /\ delCalls' = delCalls \cup {id}
  /\ ret' = NoResult
  /\ UNCHANGED <<pageVars, formVars, terrVars, people, nextPersonId, usedIds, clock, gpwCalls, gapCalls,
                 exportFile, importCalls, submitCalls>>

\* deletePerson(id) from its first await to its end
DeleteFinish(id) ==
  /\ id \in delCalls
  /\ deletePersonRow(id)
  /\ delCalls' = delCalls \ {id}
  /\ ret' = [op |-> "deletePerson", id |-> id]
  /\ UNCHANGED <<pageVars, formVars, terrVars, notes, nextNoteId, clock, gpwCalls, gapCalls,
                 exportFile, importCalls, submitCalls>>

\* getPersonWithNotes(id), lines 75-76: the person is read; null if absent
LoadPersonStart(id) ==
  /\ Cardinality(gpwCalls) < MaxPending
  /\ IF id \in DOMAIN people
     THEN /\ gpwCalls' = gpwCalls \cup {[id |-> id, row |-> people[id]]}
          /\ ret' = NoResult
     ELSE /\ ret' = [op |-> "getPersonWithNotes", id |-> id, val |-> Null]
          /\ UNCHANGED gpwCalls
  /\ UNCHANGED <<pageVars, formVars, terrVars, storeVars, delCalls, gapCalls, exportFile, importCalls, submitCalls>>

\* getPersonWithNotes(id), lines 78-86: the notes are read and merged
LoadPersonFinish ==
  \E c \in gpwCalls :
    /\ gpwCalls' = gpwCalls \ {c}
    /\ ret' = [op |-> "getPersonWithNotes", id |-> c.id,
               val |-> getPersonWithNotesResult(c.id, c.row)]
    /\ UNCHANGED <<pageVars, formVars, terrVars, storeVars, delCalls, gapCalls, exportFile, importCalls, submitCalls>>

\* getAllPeople, line 90, called by the home page ("list") or by the
\* export handler ("export")
ListStart(for) ==
  /\ Cardinality(gapCalls) < MaxPending
  /\ gapCalls' = gapCalls \cup {[for |-> for, list |-> OrderByName(DOMAIN people)]}
  /\ ret' = NoResult
  /\ UNCHANGED <<pageVars, formVars, terrVars, storeVars, delCalls, gpwCalls, exportFile, importCalls, submitCalls>>

(* ---------------------------------------------------------------------- *)
(* src/app/settings/page.tsx: export and import of the contacts            *)
(* ---------------------------------------------------------------------- *)
\* JSON.parse(JSON.stringify(note)): the Date becomes an ISO string
NoteJson(n) ==
  [ id |-> n.id, personId |-> n.personId, content |-> n.content,
    createdAt |-> Iso(n.createdAt) ]

\* JSON.parse(JSON.stringify(person)) of one element of getAllPeople's array
PersonJson(p) ==
  [ id |-> p.id, name |-> p.name, address |-> p.address, phone |-> p.phone,
    email |-> p.email, location |-> p.location,
    createdAt |-> Iso(p.createdAt), updatedAt |-> Iso(p.updatedAt),
    notes |-> [i \in DOMAIN p.notes |-> NoteJson(p.notes[i])] ]

\* lines 331-332: JSON.stringify(people), as the array a later parse yields
ExportJson(list) == [i \in DOMAIN list |-> PersonJson(list[i])]

\* the contact handed on whole, its id included
ContactDataKeepsId(contact) == contact

\* line 372: const { id, ...contactData } = contact
ContactData(contact) == [f \in DOMAIN contact \ {"id"} |-> contact[f]]

\* getAllPeople, lines 91-100: the notes of every person of the array are
\* read; the export handler writes the file (lines 332-342)
ListFinish ==
  \E c \in gapCalls :
    /\ gapCalls' = gapCalls \ {c}
    /\ IF c.for = "export"
       THEN /\ exportFile' = ExportJson(getAllPeopleResult(c.list))
            /\ ret' = [op |-> "export"]
       ELSE /\ ret' = [op |-> "getAllPeople", val |-> getAllPeopleResult(c.list)]
            /\ UNCHANGED exportFile
    /\ UNCHANGED <<pageVars, formVars, terrVars, storeVars, delCalls, gpwCalls, importCalls, submitCalls>>

\* the keys the people table can still hand out within the bound
KeysLeft == MaxPeople + 1 - nextPersonId

\* import handler, lines 357-368: the chosen file is read and parsed.
\* intoEmpty records whether the store held nothing when the import began.
ImportStart ==
  /\ importCalls = {}
  /\ Len(exportFile) <= KeysLeft
  /\ IF exportFile = << >>
     THEN /\ ret' = [op |-> "import", outcome |-> "success"]
          /\ UNCHANGED importCalls
     ELSE /\ importCalls' = {[rest |-> exportFile, file |-> exportFile,
                              intoEmpty |-> (DOMAIN people = {} /\ DOMAIN notes = {})]}
          /\ ret' = NoResult
  /\ UNCHANGED <<pageVars, formVars, terrVars, storeVars, delCalls, gpwCalls, gapCalls, exportFile, submitCalls>>

\* import handler, lines 370-380: one turn of the loop; a rejected add ends
\* the loop in the catch clause
ImportStep ==
  \E c \in importCalls :
    LET contactData == ContactData(Head(c.rest))
    IN /\ IF AddPersonRejected(contactData)
          THEN /\ importCalls' = {}
               /\ ret' = [op |-> "import", outcome |-> "failed"]
               /\ UNCHANGED <<people, nextPersonId, usedIds>>
          ELSE /\ addPerson(contactData)
               /\ IF Len(c.rest) = 1
                  THEN /\ importCalls' = {}
                       /\ ret' = [op |-> "import", outcome |-> "success"]
                  ELSE /\ importCalls' = {[c EXCEPT !.rest = Tail(@)]}
                       /\ UNCHANGED ret
       /\ UNCHANGED <<pageVars, formVars, terrVars, notes, nextNoteId, clock, delCalls, gpwCalls, gapCalls,
                      exportFile, submitCalls>>

(* ---------------------------------------------------------------------- *)
(* Specifications of the people and notes store                            *)
(* ---------------------------------------------------------------------- *)
StoreInit ==
  /\ people = << >>
  /\ nextPersonId = 1
  /\ notes = << >>
  /\ nextNoteId = 1
  /\ clock \in Times
  /\ usedIds = {}
  /\ delCalls = {} /\ gpwCalls = {} /\ gapCalls = {}
  /\ ret = NoResult
  /\ exportFile = << >>
  /\ importCalls = {} /\ submitCalls = {}

\* a fresh database and a freshly loaded module: nothing stored, no connection
TerritoryInit ==
  /\ territories = << >>
  /\ nextTerritoryId = 1
  /\ dbPromise = "null"
  /\ addCalls = {}

\* the person form as it is mounted: an empty address field, no suggestions,
\* no timer, no request
FormInit ==
  /\ address = << >>
  /\ suggestions = << >>
  /\ debounced = << >>
  /\ fetches = {}
  /\ issued = 0
  /\ submitting = << >>
  /\ locating = [mounted |-> FALSE, request |-> "none", timer |-> FALSE,
                 denied |-> FALSE, userLocation |-> FALSE, autoRetries |-> 0]
  /\ isGeocoding = FALSE

\* settings page: no 'Delete All Contacts' is running (isDeleting false);
\* contact list page, part_002 lines 95-99: the initial state
PageInit ==
  /\ deleteAll = [active |-> FALSE, ids |-> {}, todo |-> {}]
  /\ home = [sortByLocation |-> FALSE, userLocation |-> FALSE,
             isRequestingLocation |-> FALSE, showWithin20Miles |-> FALSE]

Init == StoreInit /\ TerritoryInit /\ FormInit /\ PageInit

\* the person form's inputs: form data, note content, geocoding outcome
FormInputs == PersonInputs \X (NoteContents \cup {""}) \X GeocodeOutcomes

\* forms submitted while the geocoding service gives no result
PlainForms == { i \in FormInputs : i[3] = "none" }

\* forms submitted without a note
NoteLessForms == { i \in FormInputs : i[2] = "" }

\* The event loop over the person page, the person form and the note form:
\* handlers interleave at their awaits.
Next ==
  \/ \E i \in PlainForms : SubmitNew(i[1], i[2], i[3])
  \/ SubmitNote
  \/ \E id \in PersonIds, n \in NoteContents : NoteFormSubmit(id, n)
  \/ \E id \in PersonIds : DeleteStart(id)
  \/ \E id \in PersonIds : DeleteFinish(id)
  \/ \E id \in PersonIds : LoadPersonStart(id)
  \/ LoadPersonFinish
  \/ Tick

Spec == Init /\ [][Next]_vars

\* The same pages with one caller that awaits each call before it makes the
\* next one, and direct calls of updatePerson, all within one reading of the
\* clock (none of these calls reads a stored time).
SeqNext ==
  \/ \E i \in PlainForms : Quiet /\ SubmitNew(i[1], i[2], i[3])
  \/ SubmitNote
  \/ \E id \in PersonIds, n \in NoteContents : Quiet /\ NoteFormSubmit(id, n)
  \/ \E id \in PersonIds, u \in UpdateInputs : Quiet /\ UpdatePersonCall(id, u)
  \/ \E id \in PersonIds : Quiet /\ DeleteStart(id)
  \/ \E id \in PersonIds : DeleteFinish(id)

SeqSpec == Init /\ [][SeqNext]_vars

\* The person page loading a person between the forms' and the page's own
\* writes, one caller.
LoadNext ==
  \/ \E i \in PlainForms : Quiet /\ SubmitNew(i[1], i[2], i[3])
  \/ SubmitNote
  \/ \E id \in PersonIds, n \in NoteContents : Quiet /\ NoteFormSubmit(id, n)
  \/ \E id \in PersonIds : Quiet /\ DeleteStart(id)
  \/ \E id \in PersonIds : DeleteFinish(id)
  \/ \E id \in PersonIds : Quiet /\ LoadPersonStart(id)
  \/ LoadPersonFinish
  \/ Tick

LoadSpec == Init /\ [][LoadNext]_vars

\* The person form in both its modes and direct calls of updatePerson, one
\* caller.
EditNext ==
  \/ \E i \in NoteLessForms : Quiet /\ SubmitNew(i[1], i[2], i[3])
  \/ \E id \in PersonIds, i \in NoteLessForms :
       Quiet /\ SubmitEdit(id, i[1], i[2], i[3])
  \/ \E id \in PersonIds, u \in UpdateInputs : Quiet /\ UpdatePersonCall(id, u)
  \/ \E id \in PersonIds : Quiet /\ DeleteStart(id)
  \/ \E id \in PersonIds : DeleteFinish(id)
  \/ Tick

EditSpec == Init /\ [][EditNext]_vars

\* The settings page (export, import) beside the person form and the person
\* page's delete, one caller.
BackupNext ==
  \/ \E i \in PlainForms : Quiet /\ SubmitNew(i[1], i[2], i[3])
  \/ SubmitNote
  \/ \E id \in PersonIds : Quiet /\ DeleteStart(id)
  \/ \E id \in PersonIds : DeleteFinish(id)
  \/ Quiet /\ ListStart("export")
  \/ ListFinish
  \/ Quiet /\ ImportStart
  \/ ImportStep
  \/ Tick

BackupSpec == Init /\ [][BackupNext]_vars

\* the people the home page's list is checked on: two names, so that the
\* order of the names is not the order of the keys
ListPersonInputs ==
  PersonInputs \cup
    { [name |-> "Al", address |-> "2 Oak Ave", phone |-> "", email |-> "",
       location |-> NoLocation] }

\* The home page listing the people (part_002 line 105) between the forms'
\* writes, one caller.
ListNext ==
  \/ \E p \in ListPersonInputs : Quiet /\ SubmitNew(p, "", "none")
  \/ \E id \in PersonIds, n \in NoteContents : Quiet /\ NoteFormSubmit(id, n)
  \/ Quiet /\ ListStart("list")
  \/ ListFinish
  \/ Tick

ListSpec == Init /\ [][ListNext]_vars

(* ---------------------------------------------------------------------- *)
(* src/unnamed/part_003: the territories store                             *)
(* ---------------------------------------------------------------------- *)
\* how many keys the territories store's key generator hands out
MaxTerritories == 2

TerritoryIds == 1..MaxTerritories

\* Strings are sequences of characters.  The cities and states a caller passes:
CityInputs ==
  { <<"a">>, <<"A">>, <<" ", "a">>, <<" ">>, << >> }
StateInputs ==
  { <<"t">>, <<"T">>, <<"t", " ">>, << >> }

\* String.prototype.toUpperCase and toLowerCase, character by character
UpperOf ==
  "a" :> "A" @@ "b" :> "B" @@ "c" :> "C" @@ "d" :> "D" @@ "e" :> "E" @@ "f" :> "F" @@
  "g" :> "G" @@ "h" :> "H" @@ "i" :> "I" @@ "j" :> "J" @@ "k" :> "K" @@ "l" :> "L" @@
  "m" :> "M" @@ "n" :> "N" @@ "o" :> "O" @@ "p" :> "P" @@ "q" :> "Q" @@ "r" :> "R" @@
  "s" :> "S" @@ "t" :> "T" @@ "u" :> "U" @@ "v" :> "V" @@ "w" :> "W" @@ "x" :> "X" @@
  "y" :> "Y" @@ "z" :> "Z"
LowerOf ==
  "A" :> "a" @@ "B" :> "b" @@ "C" :> "c" @@ "D" :> "d" @@ "E" :> "e" @@ "F" :> "f" @@
  "G" :> "g" @@ "H" :> "h" @@ "I" :> "i" @@ "J" :> "j" @@ "K" :> "k" @@ "L" :> "l" @@
  "M" :> "m" @@ "N" :> "n" @@ "O" :> "o" @@ "P" :> "p" @@ "Q" :> "q" @@ "R" :> "r" @@
  "S" :> "s" @@ "T" :> "t" @@ "U" :> "u" @@ "V" :> "v" @@ "W" :> "w" @@ "X" :> "x" @@
  "Y" :> "y" @@ "Z" :> "z"
UpperChar(c) == IF c \in DOMAIN UpperOf THEN UpperOf[c] ELSE c
LowerChar(c) == IF c \in DOMAIN LowerOf THEN LowerOf[c] ELSE c
ToUpperCase(str) == [i \in DOMAIN str |-> UpperChar(str[i])]
ToLowerCase(str) == [i \in DOMAIN str |-> LowerChar(str[i])]

\* String.prototype.trim: leading and trailing white space removed
RECURSIVE TrimStart(_)
TrimStart(str) ==
  IF str # << >> /\ Head(str) = " " THEN TrimStart(Tail(str)) ELSE str
RECURSIVE TrimEnd(_)
TrimEnd(str) ==
  IF str # << >> /\ str[Len(str)] = " "
  THEN TrimEnd(SubSeq(str, 1, Len(str) - 1)) ELSE str
Trim(str) == TrimEnd(TrimStart(str))

\* the stored object with the state trimmed but not uppercased
NormalizedTerritoryKeepsCase(territory, now) ==
  [ city |-> Trim(territory.city), state |-> Trim(territory.state),
    createdAt |-> now, updatedAt |-> now ]

\* addTerritory, lines 137-143: the object that is stored
NormalizedTerritory(territory, now) ==
  [ city      |-> Trim(territory.city),
    state     |-> ToUpperCase(Trim(territory.state)),
    createdAt |-> now,
    updatedAt |-> now ]

\* line 148: store.index('by_city_state').get([city, state]) finds a row
ExistingTerritory(city, state) ==
  \E k \in DOMAIN territories :
    territories[k].city = city /\ territories[k].state = state

\* territoryExists, lines 251-257, with a comparison of the city as it is
TerritoryMatchesExactCity(territory, normalizedCity, normalizedState) ==
  /\ territory.city # << >>
  /\ territory.state # << >>
  /\ Trim(territory.city) = normalizedCity
  /\ ToUpperCase(Trim(territory.state)) = normalizedState

\* territoryExists, lines 251-257: the predicate of allTerritories.some
TerritoryMatches(territory, normalizedCity, normalizedState) ==
  /\ territory.city # << >>
  /\ territory.state # << >>
  /\ ToLowerCase(Trim(territory.city)) = ToLowerCase(normalizedCity)
  /\ ToUpperCase(Trim(territory.state)) = normalizedState

\* How getDatabase's promise may have settled: "resolved" is an open
\* connection whose database has the territories store; "nostore" an open
\* connection whose database lacks it (lines 106-107, 186-187, 237-238);
\* "closed" a connection that was closed under the module, on which every
\* transaction throws; "rejected" a rejected promise.
FailedConnections == {"rejected", "closed"}

\* territoryExists answering from the store whatever became of the connection
territoryExistsIgnoresFailure(city, state, db) ==
  IF city = << >> \/ state = << >> THEN FALSE
  ELSE \E k \in DOMAIN territories :
         TerritoryMatches(territories[k], Trim(city), ToUpperCase(Trim(state)))

\* territoryExists(city, state) over a connection db, lines 219-281: false
\* for an empty argument, for a missing store and for any failure
territoryExists(city, state, db) ==
  IF city = << >> \/ state = << >> THEN FALSE
  ELSE IF db \in FailedConnections \/ db = "nostore" THEN FALSE
  ELSE \E k \in DOMAIN territories :
         TerritoryMatches(territories[k], Trim(city), ToUpperCase(Trim(state)))

\* part_003 line 99
maxRetries == 3

\* how openDB may end when initDB runs (lines 36-82)
InitOutcomes == {"resolved", "rejected"}

\* getDatabase, lines 29-34: the cached promise, or initDB's if there is none
getDatabase(outcome) == IF dbPromise = "null" THEN outcome ELSE dbPromise

\* addTerritory, lines 158-176: the catch clause for an error that is not the
\* "already exists" one: the turn is counted; at maxRetries the call throws,
\* below it the call waits (line 175) for its next turn
AddTerritoryCatch(c) ==
  IF c.retryCount + 1 >= maxRetries
  THEN /\ addCalls' = addCalls \ {c}
       /\ ret' = [op |-> "addTerritory", city |-> c.city, state |-> c.state,
                  outcome |-> "failed"]
  ELSE /\ addCalls' = (addCalls \ {c}) \cup
                        {[c EXCEPT !.retryCount = @ + 1, !.reopening = FALSE]}
       /\ UNCHANGED ret

\* addTerritory, lines 101-177: one turn of the loop for the call c, with
\* retryCount counted turns behind it.  A failed connection is counted and,
\* below maxRetries, tried again after the delay of line 175.  A missing store
\* (lines 107-127) closes the connection, forgets the promise and awaits a
\* new openDB: the turn is not counted.  An existing pair is thrown at once;
\* otherwise the row is added in the same transaction.
AddTerritoryAttempt(c, outcome) ==
  LET db == getDatabase(outcome)
      row == NormalizedTerritory(c, clock)
  IN IF db \in FailedConnections
     THEN /\ dbPromise' = db
          /\ UNCHANGED <<territories, nextTerritoryId>>
          /\ AddTerritoryCatch(c)
     ELSE IF db = "nostore"
     THEN /\ dbPromise' = "null"
          /\ addCalls' = (addCalls \ {c}) \cup {[c EXCEPT !.reopening = TRUE]}
          /\ UNCHANGED <<territories, nextTerritoryId, ret>>
     ELSE /\ dbPromise' = db
          /\ addCalls' = addCalls \ {c}
          /\ IF ExistingTerritory(row.city, row.state)
             THEN /\ UNCHANGED <<territories, nextTerritoryId>>
                  /\ ret' = [op |-> "addTerritory", city |-> c.city, state |-> c.state,
                             outcome |-> "conflict"]
             ELSE /\ nextTerritoryId \in TerritoryIds
                  /\ territories' = (nextTerritoryId :> row) @@ territories
                  /\ nextTerritoryId' = nextTerritoryId + 1
                  /\ ret' = [op |-> "addTerritory", city |-> c.city, state |-> c.state,
                             outcome |-> "added"]

\* addTerritory, lines 114-127: the openDB awaited in the missing-store branch
\* settles.  If it rejects, the catch clause counts the turn; otherwise the
\* new connection becomes the module's promise and the loop goes round
\* (`continue`) with retryCount as it was and without a delay.
AddTerritoryReopen(c, outcome) ==
  /\ UNCHANGED <<territories, nextTerritoryId>>
  /\ IF outcome = "rejected"
     THEN /\ UNCHANGED dbPromise
          /\ AddTerritoryCatch(c)
     ELSE /\ dbPromise' = outcome
          /\ addCalls' = (addCalls \ {c}) \cup {[c EXCEPT !.reopening = FALSE]}
          /\ UNCHANGED ret

\* addTerritory(territory) is called: the first turn of its loop
AddTerritoryCall(city, state, outcome) ==
  /\ Cardinality(addCalls) < MaxPending
  /\ AddTerritoryAttempt([city |-> city, state |-> state, retryCount |-> 0,
                          reopening |-> FALSE], outcome)
  /\ UNCHANGED <<pageVars, formVars, storeVars, delCalls, gpwCalls, gapCalls, exportFile, importCalls,
                 submitCalls>>

\* a waiting addTerritory call takes its next turn
AddTerritoryRetry(outcome) ==
  \E c \in addCalls :
    /\ IF c.reopening THEN AddTerritoryReopen(c, outcome)
                      ELSE AddTerritoryAttempt(c, outcome)
    /\ UNCHANGED <<pageVars, formVars, storeVars, delCalls, gpwCalls, gapCalls, exportFile, importCalls,
                   submitCalls>>

\* a call of territoryExists(city, state)
TerritoryExistsCall(city, state, outcome) ==
  LET db == getDatabase(outcome)
  IN /\ dbPromise' = IF city = << >> \/ state = << >> THEN dbPromise ELSE db
     /\ ret' = [op |-> "territoryExists", city |-> city, state |-> state,
                val |-> territoryExists(city, state, db)]
     /\ UNCHANGED <<territories, nextTerritoryId, addCalls>>
     /\ UNCHANGED <<pageVars, formVars, storeVars, delCalls, gpwCalls, gapCalls, exportFile, importCalls,
                    submitCalls>>

\* deleteTerritory rejecting an id that is not stored
DeleteTerritoryCallStrict(id, outcome) ==
  LET db == getDatabase(outcome)
  IN /\ dbPromise' = db
     /\ IF db \in FailedConnections \/ db = "nostore" \/ id \notin DOMAIN territories
        THEN /\ ret' = [op |-> "deleteTerritory", id |-> id, outcome |-> "failed"]
             /\ UNCHANGED territories
        ELSE /\ ret' = [op |-> "deleteTerritory", id |-> id, outcome |-> "deleted"]
             /\ territories' = Restrict(territories, DOMAIN territories \ {id})
     /\ UNCHANGED <<nextTerritoryId, addCalls>>
     /\ UNCHANGED <<pageVars, formVars, storeVars, delCalls, gpwCalls, gapCalls, exportFile, importCalls,
                    submitCalls>>

\* deleteTerritory(id), lines 210-217: withDB rethrows a failed connection
\* and the throw of db.transaction on a missing store; store.delete of an
\* absent key deletes nothing
DeleteTerritoryCall(id, outcome) ==
  LET db == getDatabase(outcome)
  IN /\ dbPromise' = db
     /\ IF db \in FailedConnections \/ db = "nostore"
        THEN /\ ret' = [op |-> "deleteTerritory", id |-> id, outcome |-> "failed"]
             /\ UNCHANGED territories
        ELSE /\ ret' = [op |-> "deleteTerritory", id |-> id, outcome |-> "deleted"]
             /\ territories' = Restrict(territories, DOMAIN territories \ {id})
     /\ UNCHANGED <<nextTerritoryId, addCalls>>
     /\ UNCHANGED <<pageVars, formVars, storeVars, delCalls, gpwCalls, gapCalls, exportFile, importCalls,
                    submitCalls>>

\* The territory helpers, called in any order, calls of addTerritory
\* overlapping.
TerritoryNext ==
  \/ \E c \in CityInputs, st \in StateInputs, o \in InitOutcomes :
       AddTerritoryCall(c, st, o)
  \/ \E o \in InitOutcomes : AddTerritoryRetry(o)
  \/ \E c \in CityInputs, st \in StateInputs, o \in InitOutcomes :
       TerritoryExistsCall(c, st, o)
  \/ \E id \in TerritoryIds, o \in InitOutcomes : DeleteTerritoryCall(id, o)

TerritorySpec == Init /\ [][TerritoryNext]_vars

\* How an openDB may settle (initDB lines 41-74, addTerritory lines 114-123):
\* with the store, rejected, or (on a database that is at DB_VERSION already
\* and holds no territories store, so that no upgrade runs) without the store
OpenOutcomes ==
  IF DOMAIN territories = {} THEN {"resolved", "rejected", "nostore"}
  ELSE {"resolved", "rejected"}

\* the cities and states of the calls made while the storage fails
FailureCities == { <<"a">>, <<"A">> }
FailureStates == { <<"t">> }

\* the page is loaded anew: part_003 is evaluated again (line 26) and the
\* calls of the page that was left are gone
Reload ==
  /\ dbPromise' = "null"
  /\ addCalls' = {}
  /\ ret' = NoResult
  /\ UNCHANGED <<territories, nextTerritoryId>>
  /\ UNCHANGED <<pageVars, formVars, storeVars, delCalls, gpwCalls, gapCalls, exportFile, importCalls,
                 submitCalls>>

\* the open connection is closed under the module (the browser closes it
\* when the storage is cleared or the database is upgraded elsewhere): the
\* module keeps the promise of line 26
ConnectionCloses ==
  /\ dbPromise = "resolved"
  /\ dbPromise' = "closed"
  /\ UNCHANGED <<territories, nextTerritoryId, addCalls, ret>>
  /\ UNCHANGED <<pageVars, formVars, storeVars, delCalls, gpwCalls, gapCalls, exportFile, importCalls,
                 submitCalls>>

\* The territory helpers over a storage that may fail, across page loads.
\* A call of addTerritory that waits for its next turn (the timer of line
\* 175, the openDB of line 114) gets it.
FailureNext ==
  \/ \E c \in FailureCities, st \in FailureStates, o \in OpenOutcomes :
       AddTerritoryCall(c, st, o)
  \/ \E o \in OpenOutcomes : AddTerritoryRetry(o)
  \/ \E c \in FailureCities, st \in FailureStates, o \in OpenOutcomes :
       TerritoryExistsCall(c, st, o)
  \/ \E id \in TerritoryIds, o \in OpenOutcomes : DeleteTerritoryCall(id, o)
  \/ Reload
  \/ ConnectionCloses

FailureSpec ==
  /\ Init /\ [][FailureNext]_vars
  /\ WF_vars(\E o \in OpenOutcomes : AddTerritoryRetry(o))

(* ---------------------------------------------------------------------- *)
(* src/unnamed/part_001: the address suggestions of the person form        *)
(* ---------------------------------------------------------------------- *)
\* how many suggestion fetches go to the network
MaxFetches == 2

\* what may be typed into the address field
AddressInputs ==
  { << >>, <<"a", "b">>, <<"a", "b", "c">>, <<"a", "b", "c", "d">>,
    <<"a", " ", " ">>, <<"a", "b", "c", " ">>, <<"1", "2", "3", " ">> }

IsDigit(c) == c \in {"0", "1", "2", "3", "4", "5", "6", "7", "8", "9"}
IsLetter(c) == LowerChar(c) # UpperChar(c)
\* \w of a regular expression, and \s for the white space the model types
IsWordChar(c) == IsLetter(c) \/ IsDigit(c) \/ c = "_"
IsSpace(c) == c = " "

\* String.prototype.includes
Includes(str, part) ==
  \E i \in 0..(Len(str) - Len(part)) : SubSeq(str, i + 1, i + Len(part)) = part

\* String.prototype.slice(0, n)
Slice0(str, n) == SubSeq(str, 1, IF Len(str) < n THEN Len(str) ELSE n)

\* line 666: !value.endsWith(' ') || /^\d+\s*$/.test(value)
SearchWhileTyping(value) ==
  \/ value = << >> \/ value[Len(value)] # " "
  \/ /\ IsDigit(value[1])
     /\ \A i \in DOMAIN value : IsDigit(value[i]) \/ IsSpace(value[i])
     /\ \A i \in DOMAIN value : \A j \in DOMAIN value :
          (i < j /\ IsSpace(value[i])) => IsSpace(value[j])

\* Candidates of the geocoding service (Nominatim search results with
\* addressdetails): display name, coordinates, address parts
AustinCandidate ==
  [ display_name |-> <<"1", "0", "0", " ", "M", "a", "i", "n", " ", "S", "t", ",", " ", "A", "u", "s", "t", "i", "n", ",", " ", "T", "r", "a", "v", "i", "s", " ", "C", "o", "u", "n", "t", "y", ",", " ", "T", "e", "x", "a", "s", ",", " ", "7", "8", "7", "0", "1">>,
    lat |-> 30, lon |-> -97,
    city |-> <<"A", "u", "s", "t", "i", "n">>, county |-> <<"T", "r", "a", "v", "i", "s", " ", "C", "o", "u", "n", "t", "y">>,
    state |-> <<"T", "e", "x", "a", "s">>, postcode |-> <<"7", "8", "7", "0", "1">> ]

DallasCandidate ==
  [ display_name |-> <<"7", " ", "E", "l", "m", " ", "S", "t", ",", " ", "D", "a", "l", "l", "a", "s", ",", " ", "D", "a", "l", "l", "a", "s", " ", "C", "o", "u", "n", "t", "y", ",", " ", "T", "e", "x", "a", "s", ",", " ", "7", "5", "2", "0", "1">>,
    lat |-> 32, lon |-> -96,
    city |-> <<"D", "a", "l", "l", "a", "s">>, county |-> <<"D", "a", "l", "l", "a", "s", " ", "C", "o", "u", "n", "t", "y">>,
    state |-> <<"T", "e", "x", "a", "s">>, postcode |-> <<"7", "5", "2", "0", "1">> ]

HoustonCandidate ==
  [ display_name |-> <<"5", " ", "O", "a", "k", " ", "D", "r", ",", " ", "H", "o", "u", "s", "t", "o", "n", ",", " ", "H", "a", "r", "r", "i", "s", " ", "C", "o", "u", "n", "t", "y", ",", " ", "T", "e", "x", "a", "s", ",", " ", "7", "7", "0", "0", "2">>,
    lat |-> 29, lon |-> -95,
    city |-> <<"H", "o", "u", "s", "t", "o", "n">>, county |-> <<"H", "a", "r", "r", "i", "s", " ", "C", "o", "u", "n", "t", "y">>,
    state |-> <<"T", "e", "x", "a", "s">>, postcode |-> <<"7", "7", "0", "0", "2">> ]

\* the pattern of line 341: the words that normalizeCityName removes
StreetWords ==
  { <<"a", "v", "e", "n", "u", "e">>,
    <<"a", "v", "e">>,
    <<"s", "t", "r", "e", "e", "t">>,
    <<"s", "t">>,
    <<"r", "o", "a", "d">>,
    <<"r", "d">>,
    <<"d", "r", "i", "v", "e">>,
    <<"d", "r">>,
    <<"l", "a", "n", "e">>,
    <<"l", "n">>,
    <<"b", "o", "u", "l", "e", "v", "a", "r", "d">>,
    <<"b", "l", "v", "d">>,
    <<"w", "a", "y">>,
    <<"w", "y">>,
    <<"c", "o", "u", "r", "t">>,
    <<"c", "t">>,
    <<"p", "a", "r", "k", "w", "a", "y">>,
    <<"p", "k", "w", "y">>,
    <<"h", "i", "g", "h", "w", "a", "y">>,
    <<"h", "w", "y">> }

\* the longest prefix of str made of word characters
RECURSIVE WordPrefix(_)
WordPrefix(str) ==
  IF str # << >> /\ IsWordChar(Head(str))
  THEN <<Head(str)>> \o WordPrefix(Tail(str)) ELSE << >>

\* line 341: replace(/\b(avenue|...|hwy)\b/gi, '') on a lowercased string
RECURSIVE RemoveStreetWords(_)
RemoveStreetWords(str) ==
  IF str = << >> THEN << >>
  ELSE IF IsWordChar(Head(str))
  THEN LET w == WordPrefix(str)
           rest == SubSeq(str, Len(w) + 1, Len(str))
       IN (IF w \in StreetWords THEN << >> ELSE w) \o RemoveStreetWords(rest)
  ELSE <<Head(str)>> \o RemoveStreetWords(Tail(str))

\* line 342: replace(/[^\w\s]/g, '')
KeepWordsAndSpaces(str) == SelectSeq(str, LAMBDA c : IsWordChar(c) \/ IsSpace(c))

\* line 343: replace(/\s+/g, ' ')
RECURSIVE CollapseSpaces(_)
CollapseSpaces(str) ==
  IF Len(str) < 2 THEN str
  ELSE IF IsSpace(str[1]) /\ IsSpace(str[2]) THEN CollapseSpaces(Tail(str))
  ELSE <<Head(str)>> \o CollapseSpaces(Tail(str))

\* lines 337-345
normalizeCityName(city) ==
  Trim(CollapseSpaces(KeepWordsAndSpaces(RemoveStreetWords(ToLowerCase(city)))))

\* lines 348-359
normalizeStateName(state) ==
  LET normalized == Trim(ToLowerCase(state))
  IN CASE normalized = <<"t", "x">> -> <<"t", "e", "x", "a", "s">>
       [] normalized = <<"c", "a">> -> <<"c", "a", "l", "i", "f", "o", "r", "n", "i", "a">>
       [] normalized = <<"n", "y">> -> <<"n", "e", "w", " ", "y", "o", "r", "k">>
       [] OTHER -> normalized

\* lines 332-426: the predicate of loadedTerritories.some for the result and
\* the territory t
IsMatch(result, t) ==
  LET resultCity == ToLowerCase(Trim(result.city))
      resultState == ToUpperCase(Trim(result.state))
      resultCounty == ToLowerCase(result.county)
      resultPostcode == result.postcode
      displayName == ToLowerCase(result.display_name)
      territoryCity == ToLowerCase(Trim(t.city))
      territoryState == ToUpperCase(Trim(t.state))
      normalizedResultCity == normalizeCityName(resultCity)
      normalizedTerritoryCity == normalizeCityName(territoryCity)
      normalizedResultState == normalizeStateName(resultState)
      normalizedTerritoryState == normalizeStateName(territoryState)
      displayNameMatch ==
        /\ Includes(displayName, normalizedTerritoryCity)
        /\ Includes(displayName, normalizedTerritoryState)
      cityStateMatch ==
        /\ \/ normalizedResultCity = normalizedTerritoryCity
           \/ Includes(normalizedResultCity, normalizedTerritoryCity)
           \/ Includes(normalizedTerritoryCity, normalizedResultCity)
        /\ normalizedResultState = normalizedTerritoryState
      countyMatch ==
        /\ resultCounty # << >> /\ normalizedTerritoryCity # << >>
        /\ \/ Includes(normalizeCityName(resultCounty), normalizedTerritoryCity)
           \/ Includes(normalizedTerritoryCity, normalizeCityName(resultCounty))
      postcodeMatch ==
        /\ resultPostcode # << >> /\ normalizedTerritoryCity # << >>
        /\ Slice0(resultPostcode, 3) = Slice0(normalizedTerritoryCity, 3)
      isInSameArea ==
        \/ /\ resultCity # << >> /\ territoryCity # << >>
           /\ Includes(resultCity, territoryCity) \/ Includes(territoryCity, resultCity)
        \/ /\ resultCounty # << >> /\ territoryCity # << >>
           /\ Includes(resultCounty, territoryCity) \/ Includes(territoryCity, resultCounty)
  IN displayNameMatch \/ cityStateMatch \/ countyMatch \/ postcodeMatch \/ isInSameArea

\* the filter that lets every candidate through
TerritoryFilterOff(results, loadedTerritories) == results

\* lines 310-456: results.filter(isInTerritory), when territories are saved
TerritoryFilter(results, loadedTerritories) ==
  IF loadedTerritories = << >> THEN results
  ELSE SelectSeq(results, LAMBDA r : \E i \in DOMAIN loadedTerritories :
                                       IsMatch(r, loadedTerritories[i]))

\* getTerritories over a resolved connection (part_003 lines 183-208):
\* store.getAll(), the rows in key order
RECURSIVE TerritoryRows(_)
TerritoryRows(S) ==
  IF S = {} THEN << >>
  ELSE LET k == CHOOSE x \in S : \A y \in S : x <= y
       IN <<[city |-> territories[k].city, state |-> territories[k].state]>>
            \o TerritoryRows(S \ {k})

\* handleChange of the address field, lines 650-682
TypeAddress(value) ==
  LET trimmedValue == Trim(value)
  IN /\ value # address
     /\ address' = value
     /\ IF Len(trimmedValue) >= 3
        THEN /\ debounced' = IF SearchWhileTyping(value) THEN <<trimmedValue>> ELSE debounced
             /\ UNCHANGED suggestions
        ELSE IF Len(trimmedValue) = 0
        THEN /\ suggestions' = << >>
             /\ UNCHANGED debounced
        ELSE UNCHANGED <<suggestions, debounced>>
     /\ ret' = NoResult
     /\ UNCHANGED <<fetches, issued, submitting, locating, isGeocoding>>
     /\ UNCHANGED pageVars
     /\ UNCHANGED <<storeVars, terrVars, delCalls, gpwCalls, gapCalls, exportFile,
                    importCalls, submitCalls>>

\* onFocus of the address field, lines 797-810
FocusAddress ==
  /\ Len(address) >= 3
  /\ debounced' = <<address>>
  /\ ret' = NoResult
  /\ UNCHANGED <<address, suggestions, fetches, issued, submitting, locating, isGeocoding>>
  /\ UNCHANGED pageVars
  /\ UNCHANGED <<storeVars, terrVars, delCalls, gpwCalls, gapCalls, exportFile,
                 importCalls, submitCalls>>

\* userLocation as fetchAddressSuggestions reads it.  The debounced function
\* is made in the first render and kept by useCallback with no dependencies
\* (lines 493-498); it calls the fetchAddressSuggestions of that render,
\* whose userLocation is the initial state, null (line 50).  No other code
\* calls fetchAddressSuggestions.
ClosureUserLocation == FALSE

\* lines 225-280: what the request is biased with
RequestBias(userLocation, loadedTerritories) ==
  IF userLocation THEN "device"
  ELSE IF loadedTerritories # << >> THEN "territory"
  ELSE "none"

\* the device location that is acquired, and the order of calculateDistance
\* (lines 15-25) from it over the candidates of the model: the squares of
\* the differences in degrees order them as the great-circle distance does
DeviceLocation == <<32, -96>>
DistanceOrder(result) ==
  (result.lat - DeviceLocation[1]) * (result.lat - DeviceLocation[1])
    + (result.lon - DeviceLocation[2]) * (result.lon - DeviceLocation[2])

\* lines 459-470: results.sort by distance (Array.prototype.sort is stable)
RECURSIVE SortByDistance(_)
SortByDistance(results) ==
  IF results = << >> THEN << >>
  ELSE LET i == CHOOSE k \in DOMAIN results :
                  \A j \in DOMAIN results :
                    \/ DistanceOrder(results[k]) < DistanceOrder(results[j])
                    \/ DistanceOrder(results[k]) = DistanceOrder(results[j]) /\ k <= j
       IN <<results[i]>> \o
            SortByDistance(SubSeq(results, 1, i - 1) \o SubSeq(results, i + 1, Len(results)))

\* lines 310-473: the list that a response becomes
ShownResults(c, response) ==
  LET results == TerritoryFilter(response, c.territories)
  IN IF ClosureUserLocation /\ Len(results) > 1 THEN SortByDistance(results)
     ELSE results

\* The timer of the debounce (lines 493-498) fires: fetchAddressSuggestions
\* runs up to its request, lines 174-291.  A query of fewer than 3 trimmed
\* characters empties the list and returns; a getTerritories that throws is
\* caught (lines 475-485); otherwise the request goes out.  The closure of
\* line 494 is the first render's: its userLocation is null.
DebounceFires(outcome) ==
  LET query == debounced[1]
      db == getDatabase(outcome)
  IN /\ debounced # << >>
     /\ debounced' = << >>
     /\ IF Len(Trim(query)) < 3
        THEN /\ suggestions' = << >>
             /\ UNCHANGED <<fetches, issued, dbPromise, isGeocoding>>
        ELSE /\ dbPromise' = db
             /\ IF db \in FailedConnections
                THEN /\ suggestions' = << >>
                     /\ isGeocoding' = FALSE
                     /\ UNCHANGED <<fetches, issued>>
                ELSE /\ issued < MaxFetches
                     /\ isGeocoding' = TRUE
                     /\ issued' = issued + 1
                     /\ fetches' = fetches \cup
                          {[query |-> Trim(query), seq |-> issued + 1,
                            territories |-> IF db = "nostore" THEN << >>
                                            ELSE TerritoryRows(DOMAIN territories),
                            deviceKnown |-> locating.userLocation,
                            bias |-> RequestBias(ClosureUserLocation,
                                       IF db = "nostore" THEN << >>
                                       ELSE TerritoryRows(DOMAIN territories))]}
                     /\ UNCHANGED suggestions
     /\ ret' = NoResult
     /\ UNCHANGED <<address, submitting, locating>>
     /\ UNCHANGED pageVars
     /\ UNCHANGED <<territories, nextTerritoryId, addCalls>>
     /\ UNCHANGED <<storeVars, delCalls, gpwCalls, gapCalls, exportFile,
                    importCalls, submitCalls>>

\* how the request of line 286 may end: a 2xx response with a JSON array, a
\* response that is not 2xx, a rejected fetch, a body that is not JSON
FetchOutcomes == {"ok", "non2xx", "networkError", "malformed"}

\* fetchAddressSuggestions with a catch clause that throws the error on
SuggestionsSettleRethrows(c, outcome, response) ==
  IF outcome = "ok"
  THEN [list |-> ShownResults(c, response), settled |-> "resolved"]
  ELSE [list |-> suggestions, settled |-> "rejected"]

\* fetchAddressSuggestions from its response on, lines 293-489: the list it
\* sets and how its promise settles
SuggestionsSettle(c, outcome, response) ==
  IF outcome = "ok"
  THEN [list |-> ShownResults(c, response), settled |-> "resolved"]
  ELSE [list |-> << >>, settled |-> "resolved"]

\* the response of the request of the call c arrives
FetchSettles(c, outcome, response) ==
  LET end == SuggestionsSettle(c, outcome, response)
  IN /\ c \in fetches
     /\ fetches' = fetches \ {c}
     /\ suggestions' = end.list
     /\ ret' = [op |-> "fetchAddressSuggestions", query |-> c.query, seq |-> c.seq,
                territories |-> c.territories, outcome |-> outcome,
                response |-> IF outcome = "ok" THEN response ELSE << >>,
                settled |-> end.settled]
     /\ UNCHANGED <<address, debounced, issued, submitting, locating>>
     /\ isGeocoding' = FALSE
     /\ UNCHANGED pageVars
     /\ UNCHANGED <<storeVars, terrVars, delCalls, gpwCalls, gapCalls, exportFile,
                    importCalls, submitCalls>>

(* ---------------------------------------------------------------------- *)
(* src/unnamed/part_001 and src/lib/geocode.ts: handleSubmit by its awaits *)
(* ---------------------------------------------------------------------- *)
\* how the request of geocodeAddress (geocode.ts line 71) may end: results,
\* an empty array, a response that is not 2xx, a rejected fetch, a body that
\* is not the JSON the code reads
ServiceOutcomes == {"results", "empty", "non2xx", "networkError", "malformed"}

\* geocodeAddress without its catch clause: a failed request throws
geocodeAddressThrows(addr, service) ==
  IF addr = "" THEN "none"
  ELSE CASE service = "results" -> "result"
         [] service \in {"empty", "non2xx"} -> "none"
         [] OTHER -> "error"

\* geocodeAddress, geocode.ts lines 29-134, as its caller sees it: "result"
\* for the first candidate, "none" for null.  Lines 78-81 and 85-88 return
\* null; whatever throws inside the try is caught and null returned (130-133).
geocodeAddress(addr, service) ==
  IF addr = "" THEN "none"
  ELSE IF service = "results" THEN "result" ELSE "none"

\* formData.location after a suggestion was chosen (lines 684-695)
HeldLocation == <<29, -95>>

\* the valid forms that are submitted: with and without a chosen place, with
\* and without a note
SubmitForms ==
  (PersonInputs \cup { [p EXCEPT !.location = HeldLocation] : p \in PersonInputs })
    \X (NoteContents \cup {""})

\* handleSubmit of a valid form, lines 554-581, up to its await of
\* geocodeAddress; id is initialData.id, 0 for a new person
SubmitStart(id, formData, noteContent) ==
  /\ submitting = << >>
  /\ id = 0 \/ id \in DOMAIN people
  /\ submitting' = <<[id |-> id, data |-> formData, note |-> noteContent,
                      stage |-> "geocoding", geo |-> "pending"]>>
  /\ ret' = NoResult
  /\ UNCHANGED <<address, suggestions, debounced, fetches, issued, locating>>
  /\ isGeocoding' = IF formData.address # "" THEN TRUE ELSE isGeocoding
  /\ UNCHANGED pageVars
  /\ UNCHANGED <<storeVars, terrVars, delCalls, gpwCalls, gapCalls, exportFile,
                 importCalls, submitCalls>>

\* geocodeAddress settles, lines 581-600
GeocodeSettles(service) ==
  /\ submitting # << >> /\ submitting[1].stage = "geocoding"
  /\ submitting' = <<[submitting[1] EXCEPT
                        !.stage = "saving",
                        !.geo = geocodeAddress(submitting[1].data.address, service)]>>
  /\ ret' = [op |-> "geocodeAddress", service |-> service,
             val |-> geocodeAddress(submitting[1].data.address, service)]
  /\ UNCHANGED <<address, suggestions, debounced, fetches, issued, locating>>
  /\ isGeocoding' = IF submitting[1].data.address # "" THEN FALSE ELSE isGeocoding
  /\ UNCHANGED pageVars
  /\ UNCHANGED <<storeVars, terrVars, delCalls, gpwCalls, gapCalls, exportFile,
                 importCalls, submitCalls>>

\* handleSubmit, lines 603-619: the person is saved
SubmitSave ==
  /\ submitting # << >> /\ submitting[1].stage = "saving"
  /\ LET c == submitting[1]
     IN IF c.id = 0 THEN SaveNew(c.data, c.note, c.geo)
                    ELSE SaveEdit(c.id, c.data, c.note, c.geo)
  /\ submitting' = << >>
  /\ UNCHANGED <<address, suggestions, debounced, fetches, issued, locating, isGeocoding>>
  /\ UNCHANGED pageVars

\* the candidates the service answers a suggestion request with
FormResponses == { << >>, <<AustinCandidate>> }

\* The address field of the person form with its suggestions.
SuggestNext ==
  \/ \E v \in AddressInputs : TypeAddress(v)
  \/ FocusAddress
  \/ \E o \in InitOutcomes : DebounceFires(o)
  \/ \E c \in fetches, o \in FetchOutcomes, r \in FormResponses : FetchSettles(c, o, r)

SuggestSpec == Init /\ [][SuggestNext]_vars

\* the address typed and the form submitted while the services fail
FailingInputs == { <<"a", "b", "c">> }

\* The person form while the suggestion service and the geocoding service
\* answer or fail: an address is typed, and a new person is submitted.
FormNext ==
  \/ \E v \in FailingInputs : TypeAddress(v)
  \/ \E o \in InitOutcomes : DebounceFires(o)
  \/ \E c \in fetches, o \in FetchOutcomes, r \in FormResponses : FetchSettles(c, o, r)
  \/ \E f \in PersonInputs : Quiet /\ SubmitStart(0, f, "")
  \/ \E s \in ServiceOutcomes : GeocodeSettles(s)
  \/ SubmitSave

FormSpec == Init /\ [][FormNext]_vars

\* The person form submitted for new and for stored people, with and
\* without a note, while the geocoding service answers or fails.
SubmitNext ==
  \/ \E id \in {0} \cup PersonIds, f \in SubmitForms : Quiet /\ SubmitStart(id, f[1], f[2])
  \/ \E s \in ServiceOutcomes : GeocodeSettles(s)
  \/ SubmitSave
  \/ SubmitNote

SubmitSpec == Init /\ [][SubmitNext]_vars

(* ---------------------------------------------------------------------- *)
(* src/unnamed/part_001: getCurrentLocation                                *)
(* ---------------------------------------------------------------------- *)
\* the automatic retries the model follows after one request
MaxAutoRetries == 2

\* GeolocationPositionError.code
PositionErrors == {"PERMISSION_DENIED", "POSITION_UNAVAILABLE", "TIMEOUT"}

\* what the location steps leave alone
LocateFrame ==
  /\ UNCHANGED <<address, suggestions, fetches, issued, submitting, isGeocoding>>
  /\ UNCHANGED pageVars
  /\ UNCHANGED <<storeVars, callVars, terrVars>>

\* The effect of the mount, lines 120-141: getCurrentLocation is called when
\* the setting is on and the browser has navigator.geolocation.  The
\* interval of lines 146-151 is never started: the effect runs once, while
\* geolocationEnabled and isGeolocationAvailable are still false.
MountForm(enabled) ==
  /\ ~locating.mounted
  /\ locating' = [locating EXCEPT !.mounted = TRUE,
                                  !.request = IF enabled THEN "mount" ELSE "none"]
  /\ UNCHANGED debounced
  /\ LocateFrame

\* the "retry" button of lines 765-770, shown while geolocationDenied
ClickRetry ==
  /\ locating.mounted /\ locating.denied
  /\ locating.request = "none"
  /\ locating' = [locating EXCEPT !.request = "user", !.autoRetries = 0]
  /\ UNCHANGED debounced
  /\ LocateFrame

\* The success callback of getCurrentPosition, lines 81-91.  setUserLocation
\* gets a new object, so the effect of lines 527-531 is cleaned up, and its
\* cleanup cancels the pending call of the debounced function.
LocateSuccess ==
  /\ locating.request # "none"
  /\ locating' = [locating EXCEPT !.request = "none", !.userLocation = TRUE,
                                  !.denied = FALSE]
  /\ debounced' = << >>
  /\ LocateFrame

\* the error callback of getCurrentPosition, lines 92-110
LocateError(code) ==
  /\ locating.request # "none"
  /\ locating' = IF code = "PERMISSION_DENIED"
                 THEN [locating EXCEPT !.request = "none", !.denied = TRUE]
                 ELSE [locating EXCEPT !.request = "none", !.denied = FALSE,
                                       !.timer = TRUE]
  /\ UNCHANGED debounced
  /\ LocateFrame

\* the timer of line 107 fires: getCurrentLocation again
RetryTimerFires ==
  /\ locating.timer
  /\ locating.autoRetries < MaxAutoRetries
  /\ locating' = [locating EXCEPT !.timer = FALSE, !.request = "retry",
                                  !.autoRetries = @ + 1]
  /\ UNCHANGED debounced
  /\ LocateFrame

\* The person form from its mount on: the device location is acquired while
\* an address is typed.
LocationNext ==
  \/ \E enabled \in BOOLEAN : MountForm(enabled)
  \/ ClickRetry
  \/ LocateSuccess
  \/ \E code \in PositionErrors : LocateError(code)
  \/ RetryTimerFires
  \/ \E v \in FailingInputs : TypeAddress(v)
  \/ \E o \in InitOutcomes : DebounceFires(o)
  \/ \E c \in fetches, o \in FetchOutcomes, r \in FormResponses : FetchSettles(c, o, r)

LocationSpec == Init /\ [][LocationNext]_vars

(* ---------------------------------------------------------------------- *)
(* src/unnamed/part_001: the suggestions of a user with saved territories  *)
(* ---------------------------------------------------------------------- *)
\* a candidate in Houston whose street carries the name of another city
HoustonAustinStreetCandidate ==
  [ display_name |-> <<"1", "2", " ", "A", "u", "s", "t", "i", "n", " ", "S", "t", ",", " ", "H", "o", "u", "s", "t", "o", "n", ",", " ", "H", "a", "r", "r", "i", "s", " ", "C", "o", "u", "n", "t", "y", ",", " ", "T", "e", "x", "a", "s", ",", " ", "7", "7", "0", "0", "2">>,
    lat |-> 29, lon |-> -95,
    city |-> <<"H", "o", "u", "s", "t", "o", "n">>, county |-> <<"H", "a", "r", "r", "i", "s", " ", "C", "o", "u", "n", "t", "y">>,
    state |-> <<"T", "e", "x", "a", "s">>, postcode |-> <<"7", "7", "0", "0", "2">> ]

\* the cities and the state of the territories that are saved
FilterCities == { <<"A", "u", "s", "t", "i", "n">>, <<"D", "a", "l", "l", "a", "s">> }
FilterState == <<"T", "X">>

\* the candidates the service answers with
FilterResponses ==
  { << >>,
    <<AustinCandidate, DallasCandidate, HoustonCandidate>>,
    <<HoustonCandidate, DallasCandidate, AustinCandidate>>,
    <<HoustonCandidate>>,
    <<HoustonAustinStreetCandidate, HoustonCandidate>> }

\* the address typed
FilterInputs == { <<"1", "0", "0", " ", "M", "a", "i", "n">> }

\* Territories are added and deleted in the settings while the person form
\* asks for suggestions and the service answers.
FilterNext ==
  \/ \E c \in FilterCities : AddTerritoryCall(c, FilterState, "resolved")
  \/ \E id \in TerritoryIds : DeleteTerritoryCall(id, "resolved")
  \/ \E v \in FilterInputs : TypeAddress(v)
  \/ DebounceFires("resolved")
  \/ \E c \in fetches, r \in FilterResponses : FetchSettles(c, "ok", r)

FilterSpec == Init /\ [][FilterNext]_vars

\* the addresses typed while the device location is acquired
TypingInputs == { <<"a", "b", "c">>, <<"a", "b", "c", "d">> }

\* The person form with a storage and a service that work: an address is
\* typed while the device location is acquired.  The timer of the debounce
\* fires when it is pending.
TypingNext ==
  \/ \E enabled \in BOOLEAN : MountForm(enabled)
  \/ ClickRetry
  \/ LocateSuccess
  \/ \E code \in PositionErrors : LocateError(code)
  \/ RetryTimerFires
  \/ \E v \in TypingInputs : TypeAddress(v)
  \/ DebounceFires("resolved")
  \/ \E c \in fetches, r \in FormResponses : FetchSettles(c, "ok", r)

TypingSpec == Init /\ [][TypingNext]_vars /\ WF_vars(DebounceFires("resolved"))

(* ---------------------------------------------------------------------- *)
(* src/unnamed/part_001: handleSubmit when the store rejects a write       *)
(* ---------------------------------------------------------------------- *)
\* what handleSubmit shows from its catch, lines 620-622; id is the person
\* that was written before the rejection, 0 when none was
SubmitFailed(personId) ==
  [op |-> "submit", id |-> personId, updated |-> 0, outcome |-> "failed"]

\* addPerson rejects (db.people.add, db.ts 44-51): line 608 throws
SubmitSaveFails ==
  /\ submitting # << >> /\ submitting[1].stage = "saving"
  /\ submitting[1].id = 0
  /\ submitting' = << >>
  /\ ret' = SubmitFailed(0)
  /\ UNCHANGED <<address, suggestions, debounced, fetches, issued, locating, isGeocoding>>
  /\ UNCHANGED pageVars
  /\ UNCHANGED <<storeVars, terrVars, delCalls, gpwCalls, gapCalls, exportFile,
                 importCalls, submitCalls>>

\* addNote rejects (db.notes.add, db.ts 67-72): line 613 throws after the
\* person was written
SubmitNoteFails ==
  \E c \in submitCalls :
    /\ submitCalls' = submitCalls \ {c}
    /\ ret' = SubmitFailed(c.personId)
    /\ UNCHANGED <<pageVars, formVars, storeVars, terrVars, delCalls, gpwCalls, gapCalls,
                   exportFile, importCalls>>

\* The form of a new person is submitted, and submitted again, while the
\* store accepts or rejects the writes.
ResubmitNext ==
  \/ \E f \in SubmitForms : Quiet /\ SubmitStart(0, f[1], f[2])
  \/ GeocodeSettles("results") \/ GeocodeSettles("networkError")
  \/ SubmitSave
  \/ SubmitSaveFails
  \/ SubmitNote
  \/ SubmitNoteFails

ResubmitSpec == Init /\ [][ResubmitNext]_vars

(* ---------------------------------------------------------------------- *)
(* src/lib/db.ts: addPerson, addNote and deletePerson as a caller has them *)
(* ---------------------------------------------------------------------- *)
\* addNote(note), db.ts 67-72, for any personId: the function looks nothing
\* up in db.people
AddNoteCall(personId, content) ==
  /\ addNote([personId |-> personId, content |-> content])
  /\ ret' = [op |-> "addNote", id |-> personId, val |-> nextNoteId]
  /\ UNCHANGED <<pageVars, formVars, terrVars, people, nextPersonId, usedIds, clock, delCalls, gpwCalls,
                 gapCalls, exportFile, importCalls, submitCalls>>

\* Calls of addPerson, addNote and deletePerson, one after the other.
ApiNext ==
  \/ \E p \in PersonInputs : Quiet /\ SubmitNew(p, "", "none")
  \/ \E id \in PersonIds, n \in NoteContents : Quiet /\ AddNoteCall(id, n)
  \/ \E id \in PersonIds : Quiet /\ DeleteStart(id)
  \/ \E id \in PersonIds : DeleteFinish(id)
  \/ Tick

ApiSpec == Init /\ [][ApiNext]_vars

(* ---------------------------------------------------------------------- *)
(* Claims about the people and notes store                                 *)
(* ---------------------------------------------------------------------- *)
\* the step on which deletePerson(id) completes
DeleteCompletes(id) == id \in delCalls /\ id \notin delCalls'

\* C1: for any sequence of addPerson / addNote / updatePerson calls made one
\* after the other, when deletePerson(id) completes no Note with personId = id
\* is left in the notes table (the query for that person's notes is empty) and
\* id is not a key of the people table, so getAllPeople does not list it.
C1_DeleteCascades ==
  [][\A id \in PersonIds :
       DeleteCompletes(id) =>
         /\ \A k \in DOMAIN notes' : notes'[k].personId # id
         /\ NotesQuery(id)' = << >>
         /\ id \notin DOMAIN people'
         /\ \A x \in Range(OrderByName(DOMAIN people))' : x.id # id]_vars

\* C1 witness: a deletePerson has completed for a person that was stored, and
\* the notes that had been added are gone with it.
C1_Witness ==
  /\ ret.op = "deletePerson"
  /\ ret.id \in usedIds /\ ret.id \notin DOMAIN people
  /\ nextNoteId > 1
  /\ DOMAIN notes = {}

\* C2: every step that adds a Note adds it for a personId that is a key of
\* the people table at the time of the call (an addNote for any other personId
\* fails and leaves the notes table as it was).
C2_NoteNeedsPerson ==
  [][\A k \in DOMAIN notes' \ DOMAIN notes :
       notes'[k].personId \in DOMAIN people]_vars

\* C3: deletePerson(id) is one logical operation: while it is between its
\* note deletion and its person deletion no step of another call takes effect
\* on that person (no Note with personId = id is added), so that no Note with
\* personId = id is stored when it completes.
C3_DeleteIsAtomic ==
  [][\A id \in delCalls :
       /\ id \in delCalls' => NoteKeysOf(id)' = NoteKeysOf(id)
       /\ id \notin delCalls' => NoteKeysOf(id)' = {}]_vars

\* the step on which a getPersonWithNotes call resolves: either its second
\* await returns, or its first one finds no person
LoadCompletes ==
  \/ gpwCalls # {} /\ gpwCalls' = {}
  \/ gpwCalls' = gpwCalls /\ ret' # ret /\ ret'.op = "getPersonWithNotes"

\* a sequence of notes in createdAt order, oldest first
AscendingByCreatedAt(ns) ==
  \A i \in DOMAIN ns : \A j \in DOMAIN ns : i < j => ns[i].createdAt <= ns[j].createdAt

\* C10: getPersonWithNotes(id) resolves with null when no Person has that id;
\* otherwise with that Person and exactly the Notes whose personId = id, each
\* once, ordered by createdAt ascending, whatever the order of insertion.
C10_PersonWithNotes ==
  [][LoadCompletes =>
       LET id == ret'.id
           val == ret'.val
       IN IF id \notin DOMAIN people
          THEN val = Null
          ELSE /\ Len(val) = 1
               /\ val[1].id = id
               /\ val[1].name = people[id].name
               /\ val[1].address = people[id].address
               /\ val[1].phone = people[id].phone
               /\ val[1].email = people[id].email
               /\ val[1].createdAt = people[id].createdAt
               /\ val[1].updatedAt = people[id].updatedAt
               /\ { n.id : n \in Range(val[1].notes) } = NoteKeysOf(id)
               /\ Len(val[1].notes) = Cardinality(NoteKeysOf(id))
               /\ \A n \in Range(val[1].notes) : n = NoteObject(n.id)
               /\ AscendingByCreatedAt(val[1].notes)]_vars

\* C10 witness: a person was returned with two notes, of which the one
\* inserted later is the older one and comes first.
C10_Witness ==
  /\ ret.op = "getPersonWithNotes"
  /\ ret.val # Null
  /\ Len(ret.val[1].notes) = 2
  /\ ret.val[1].notes[1].id > ret.val[1].notes[2].id
  /\ ret.val[1].notes[1].createdAt < ret.val[1].notes[2].createdAt

\* C10 also: the sentinel was returned for an id that once was a person
C10_WitnessNull ==
  /\ ret.op = "getPersonWithNotes"
  /\ ret.val = Null
  /\ ret.id \in usedIds

\* C6: an updatePerson for an id that is not a key of the people table fails
\* with a NotFound error, in a direct call and in the edit path of the person
\* form alike: no such call resolves, and no such submit reports success.
C6_UpdateAbsentFails ==
  /\ ret.op = "updatePerson" /\ ret.val = 0 => ret.outcome = "NotFound"
  /\ ret.op = "submit" /\ ret.updated = 0 => ret.outcome = "NotFound"

\* every update the model makes: the direct calls and the form's finalData
AllUpdates ==
  UpdateInputs \cup { FinalData(i[1], i[3]) : i \in FormInputs }

\* C7: whatever updatePerson calls are made on a Person (the edit path of the
\* person form included), its createdAt stays what addPerson set; a step that
\* changes the Person is an update that sets updatedAt to the time of the call
\* and leaves every field the update does not name as it was.
C7_UpdateKeepsCreatedAt ==
  [][\A id \in DOMAIN people \cap DOMAIN people' :
       /\ people'[id].createdAt = people[id].createdAt
       /\ people'[id] # people[id] =>
            \E u \in AllUpdates :
              /\ DOMAIN people'[id] = DOMAIN people[id]
              /\ people'[id].updatedAt = clock
              /\ \A f \in DOMAIN u : people'[id][f] = u[f]
              /\ \A f \in DOMAIN people[id] \ (DOMAIN u \cup {"updatedAt"}) :
                   people'[id][f] = people[id][f]]_vars

\* C7 witness: a Person updated later than it was created, by an update that
\* named only name and phone: the address is the one it was added with.
C7_Witness ==
  \E id \in DOMAIN people :
    /\ people[id].updatedAt > people[id].createdAt
    /\ people[id].name = "Al"
    /\ people[id].address = "1 Elm St"

ContentOf(list) ==
  { [ name |-> p.name, address |-> p.address, phone |-> p.phone, email |-> p.email,
      notes |-> [i \in DOMAIN p.notes |-> p.notes[i].content] ] : p \in Range(list) }

\* what getAllPeople returns in the current state
AllPeopleNow == getAllPeopleResult(OrderByName(DOMAIN people))

\* C9: when the import of an exported file into an empty store has completed,
\* getAllPeople gives the same set of People as the file holds, ignoring ids,
\* with the same name, address, phone, email and notes content.
C9_RoundTrip ==
  [][\A c \in importCalls :
       (importCalls' = {} /\ c.intoEmpty /\ ret'.outcome = "success") =>
          ContentOf(AllPeopleNow)' = ContentOf(c.file)]_vars

\* the step on which a getAllPeople call of the home page resolves
ListCompletes == gapCalls # {} /\ gapCalls' = {} /\ ret'.op = "getAllPeople"

\* C11: getAllPeople resolves with every stored Person exactly once, in
\* ascending order of name, each with the fields of its row and exactly the
\* Notes whose personId is its id, each once, in ascending order of createdAt.
C11_AllPeople ==
  [][ListCompletes =>
       LET val == ret'.val
       IN /\ { val[i].id : i \in DOMAIN val } = DOMAIN people
          /\ Len(val) = Cardinality(DOMAIN people)
          /\ \A i \in DOMAIN val : \A j \in DOMAIN val :
               i < j => NameRank(val[i].name) <= NameRank(val[j].name)
          /\ \A i \in DOMAIN val :
               LET id == val[i].id
               IN /\ val[i].name = people[id].name
                  /\ val[i].address = people[id].address
                  /\ val[i].phone = people[id].phone
                  /\ val[i].email = people[id].email
                  /\ val[i].createdAt = people[id].createdAt
                  /\ val[i].updatedAt = people[id].updatedAt
                  /\ { n.id : n \in Range(val[i].notes) } = NoteKeysOf(id)
                  /\ Len(val[i].notes) = Cardinality(NoteKeysOf(id))
                  /\ \A n \in Range(val[i].notes) : n = NoteObject(n.id) /\ n.personId = id
                  /\ AscendingByCreatedAt(val[i].notes)]_vars

\* C11 witness: two people were listed, the one added later first because of
\* its name, each with a note of its own.
C11_Witness ==
  /\ ret.op = "getAllPeople"
  /\ Len(ret.val) = 2
  /\ ret.val[1].id > ret.val[2].id
  /\ Len(ret.val[1].notes) = 1 /\ Len(ret.val[2].notes) = 1
  /\ ret.val[1].notes[1].personId = ret.val[1].id
  /\ ret.val[2].notes[1].personId = ret.val[2].id

(* ---------------------------------------------------------------------- *)
(* Claims about the territories store                                      *)
(* ---------------------------------------------------------------------- *)
\* the normalized pair of a city and a state: city trimmed, state trimmed
\* and uppercased
NormalizedPair(city, state) == <<Trim(city), ToUpperCase(Trim(state))>>

StoredPairs ==
  { NormalizedPair(territories[k].city, territories[k].state) : k \in DOMAIN territories }

UniqueTerritories ==
  \A i \in DOMAIN territories : \A j \in DOMAIN territories :
    i # j => NormalizedPair(territories[i].city, territories[i].state)
               # NormalizedPair(territories[j].city, territories[j].state)

\* the step on which an addTerritory call ends
AddTerritoryEnds == ret' # ret /\ ret'.op = "addTerritory"

\* C4: in every state, under any interleaving of addTerritory calls, no two
\* stored Territories have the same normalized (city, state) pair; and an
\* addTerritory ends in the conflict error exactly when the normalized form
\* of its pair is stored, and then leaves the store as it was.
C4_UniqueTerritories ==
  [][/\ UniqueTerritories'
     /\ AddTerritoryEnds =>
          /\ NormalizedPair(ret'.city, ret'.state) \in StoredPairs
                => ret'.outcome = "conflict"
          /\ ret'.outcome = "conflict"
                => /\ NormalizedPair(ret'.city, ret'.state) \in StoredPairs
                   /\ territories' = territories]_vars

\* C4 witness: two Territories are stored that differ in the case of the city
\* only, and a call for a pair already stored has ended in the conflict error.
C4_Witness ==
  /\ Cardinality(DOMAIN territories) = 2
  /\ ret.op = "addTerritory" /\ ret.outcome = "conflict"
  /\ NormalizedPair(ret.city, ret.state) \in StoredPairs
  /\ <<ret.city, ret.state>> \notin StoredPairs

\* a city and a state that are not empty once trimmed
ValidPair(city, state) == Trim(city) # << >> /\ Trim(state) # << >>

\* two strings that differ in letter case and surrounding white space only
SameButCaseAndSpace(x, y) == ToLowerCase(Trim(x)) = ToLowerCase(Trim(y))

\* (city, state) is a stored Territory or such a variant of one
VariantOfStored(city, state) ==
  \E k \in DOMAIN territories :
    /\ ValidPair(territories[k].city, territories[k].state)
    /\ SameButCaseAndSpace(city, territories[k].city)
    /\ SameButCaseAndSpace(state, territories[k].state)

\* C5: once addTerritory has stored a valid pair, territoryExists answers true
\* for that pair and for every variant of it that differs in letter case or
\* surrounding white space only, and an addTerritory of the same normalized
\* pair ends in the conflict error.
C5_ExistsAfterAdd ==
  [][/\ (ret' # ret /\ ret'.op = "territoryExists"
           /\ VariantOfStored(ret'.city, ret'.state)) => ret'.val = TRUE
     /\ (AddTerritoryEnds /\ ValidPair(ret'.city, ret'.state)
           /\ NormalizedPair(ret'.city, ret'.state) \in StoredPairs) =>
          ret'.outcome = "conflict"]_vars

\* C5 witness: territoryExists has answered true for a variant, in case and
\* white space, of a stored pair that is not the stored pair itself.
C5_Witness ==
  /\ ret.op = "territoryExists" /\ ret.val = TRUE
  /\ NormalizedPair(ret.city, ret.state) \notin StoredPairs
  /\ ret.city # Trim(ret.city)

\* C5 witness, second half: the second addTerritory of a stored pair
C5_WitnessConflict ==
  /\ ret.op = "addTerritory" /\ ret.outcome = "conflict"
  /\ ValidPair(ret.city, ret.state)

\* C12: every call of addTerritory ends: a call that waits for another turn
\* of its loop (after a failed connection, after a missing store) is not
\* waiting for ever, because the turns are counted up to maxRetries.
C12_AddTerritoryTerminates == (addCalls # {}) ~> (addCalls = {})

\* C13: a call of territoryExists resolves with a boolean whatever became of
\* the storage (a rejected or closed connection, a missing store), with false
\* whenever the storage failed, and leaves the territories store as it was.
C13_ExistsNeverThrows ==
  [][(ret' # ret /\ ret'.op = "territoryExists") =>
       /\ ret'.val \in BOOLEAN
       /\ dbPromise' \in FailedConnections \cup {"nostore"} => ret'.val = FALSE
       /\ territories' = territories
       /\ nextTerritoryId' = nextTerritoryId]_vars

\* C13 witness: territoryExists answered false for a pair that is stored,
\* because the connection had failed.
C13_Witness ==
  /\ ret.op = "territoryExists" /\ ret.val = FALSE
  /\ dbPromise \in FailedConnections
  /\ VariantOfStored(ret.city, ret.state)

\* C13 witness: territoryExists answered false over a database without the
\* territories store
C13_WitnessNoStore ==
  /\ ret.op = "territoryExists" /\ ret.val = FALSE
  /\ dbPromise = "nostore"

\* the step on which a deleteTerritory call ends over a working connection
DeleteTerritoryEnds ==
  ret' # ret /\ ret'.op = "deleteTerritory" /\ dbPromise' = "resolved"

\* C14: over a working connection deleteTerritory(id) succeeds whether or not
\* id is stored; it removes the Territory id and nothing else, so that for an
\* id that is absent (never added, or deleted before) the store is left as it
\* was, and a second call changes nothing the first has not changed.
C14_DeleteIdempotent ==
  [][DeleteTerritoryEnds =>
       /\ ret'.outcome = "deleted"
       /\ territories' = Restrict(territories, DOMAIN territories \ {ret'.id})
       /\ ret'.id \notin DOMAIN territories => territories' = territories]_vars

\* C14 witness: a deleteTerritory succeeded for an id that had been deleted
\* before, beside a Territory that is still stored.
C14_Witness ==
  /\ ret.op = "deleteTerritory" /\ ret.outcome = "deleted"
  /\ ret.id < nextTerritoryId
  /\ ret.id \notin DOMAIN territories
  /\ DOMAIN territories # {}
  /\ \A k \in DOMAIN territories : k > ret.id

(* ---------------------------------------------------------------------- *)
(* Claims about the person form                                            *)
(* ---------------------------------------------------------------------- *)
\* C15: the late response of a superseded suggestion fetch is ignored: when
\* a call settles after a later call was issued, the displayed list stays
\* as it was.  fetchAddressSuggestions keeps no sequence number and aborts
\* nothing (line 472 sets the list whenever a response arrives), so the
\* stale response replaces the list of the fresher query.
C15_StaleResponseIgnored ==
  [][\A c \in fetches \ fetches' : c.seq < issued => suggestions' = suggestions]_vars

\* C16: a query of fewer than 3 trimmed characters issues no request and
\* empties the suggestion list, on every input path.  The requests part
\* holds; handleChange with 1 or 2 trimmed characters (lines 677-679) leaves
\* the list as it was.
C16_NoRequestForShortQuery == \A c \in fetches : Len(Trim(c.query)) >= 3

C16_ShortQueryEmptiesList ==
  /\ []C16_NoRequestForShortQuery
  /\ [][(address' # address /\ Len(Trim(address')) < 3) => suggestions' = << >>]_vars

\* C17: errors of the geocoding subsystem never reach the callers.  A
\* suggestion fetch that fails, is answered with a status that is not 2xx,
\* or has an unreadable body leaves the list empty and its promise
\* resolves; geocodeAddress returns its no-result value, and never throws,
\* when the request fails, is answered with a status that is not 2xx, has an
\* unreadable body, or finds nothing.
C17_ErrorsNeverPropagate ==
  [][/\ (ret' # ret /\ ret'.op = "fetchAddressSuggestions")
          => /\ ret'.settled = "resolved"
             /\ ret'.outcome # "ok" => suggestions' = << >>
     /\ (ret' # ret /\ ret'.op = "geocodeAddress")
          => /\ ret'.val \in {"result", "none"}
             /\ ret'.service # "results" => ret'.val = "none"]_vars

\* a suggestion request has failed on the network
C17_Witness ==
  /\ ret.op = "fetchAddressSuggestions"
  /\ ret.outcome = "networkError"
  /\ ret.settled = "resolved"
  /\ suggestions = << >>

\* geocodeAddress has been answered with a status that is not 2xx
C17_WitnessGeocode ==
  /\ ret.op = "geocodeAddress"
  /\ ret.service = "non2xx"
  /\ ret.val = "none"

\* C18: submitting a valid form stores the person, and the note if one was
\* written, whatever the geocoding gave; when the geocoding failed or found
\* nothing the stored address is the address as entered and the stored
\* location is the location the form held.
C18_SubmitPersists ==
  [][/\ (submitting # << >> /\ submitting' = << >>)
          => LET c == submitting[1]
             IN \E id \in DOMAIN people' :
                  /\ IF c.id = 0 THEN id \notin DOMAIN people ELSE id = c.id
                  /\ people'[id].name = c.data.name
                  /\ people'[id].phone = c.data.phone
                  /\ c.geo # "result"
                       => /\ people'[id].address = c.data.address
                          /\ people'[id].location = c.data.location
                  /\ c.note # ""
                       => [personId |-> id, content |-> c.note] \in submitCalls'
     /\ \A n \in submitCalls \ submitCalls' :
          \E k \in DOMAIN notes' \ DOMAIN notes :
            /\ notes'[k].personId = n.personId
            /\ notes'[k].content = n.content]_vars

\* a form that held a chosen place was submitted with a note while the
\* geocoding gave nothing: the row has the address as entered and the place
C18_Witness ==
  /\ submitting = << >>
  /\ ret.op = "submit"
  /\ ret.id \in DOMAIN people
  /\ people[ret.id].address = "1 Elm St"
  /\ people[ret.id].location = HeldLocation
  /\ \E k \in DOMAIN notes : notes[k].personId = ret.id

\* C19: after a permission-denied error no retry is scheduled and no
\* request is made until the user clicks "retry"; after an error that is
\* not a permission error the acquisition is retried once.  The first part
\* holds.  Each failing retry starts the timer of line 107 again, so the
\* retries go on for as long as the acquisition fails: a request of the
\* mount or of the user is followed by more than one automatic retry.
C19_DeniedIsTerminal ==
  locating.denied => (~locating.timer /\ locating.request \in {"none", "user"})

C19_RetriedOnce ==
  /\ C19_DeniedIsTerminal
  /\ locating.autoRetries <= 1

\* C20: when territories are saved, the suggestions shown are the candidates
\* of the response, in its order, that match a saved territory by one of the
\* heuristics; a candidate that matches none is removed.  Of the candidates
\* with an ordinary display name, those are kept whose city and state are a
\* saved territory: with Austin, TX and Dallas, TX saved, the candidate in
\* Houston is removed and the two others are kept.
PlainCandidates == {AustinCandidate, DallasCandidate, HoustonCandidate}

LiesIn(result, t) ==
  /\ ToLowerCase(result.city) = ToLowerCase(t.city)
  /\ ToLowerCase(result.state) = normalizeStateName(t.state)

C20_TerritoryFilter ==
  [][(ret' # ret /\ ret'.op = "fetchAddressSuggestions" /\ ret'.outcome = "ok"
        /\ ret'.territories # << >>)
       => LET saved == ret'.territories
              response == ret'.response
              shown == suggestions'
          IN /\ shown = SelectSeq(response,
                          LAMBDA r : \E i \in DOMAIN saved : IsMatch(r, saved[i]))
             /\ (\A j \in DOMAIN response : response[j] \in PlainCandidates)
                  => shown = SelectSeq(response,
                               LAMBDA r : \E i \in DOMAIN saved : LiesIn(r, saved[i]))]_vars

\* Austin, TX and Dallas, TX are saved; of the candidates in Austin, Dallas
\* and Houston the first two are shown
C20_Witness ==
  /\ ret.op = "fetchAddressSuggestions"
  /\ ret.outcome = "ok"
  /\ Len(ret.territories) = 2
  /\ ret.response = <<AustinCandidate, DallasCandidate, HoustonCandidate>>
  /\ suggestions = <<AustinCandidate, DallasCandidate>>

\* a candidate in Houston is shown because its display name has the words
\* of a saved territory
C20_WitnessDisplayName ==
  /\ ret.op = "fetchAddressSuggestions"
  /\ ret.outcome = "ok"
  /\ ret.territories # << >>
  /\ ret.response = <<HoustonAustinStreetCandidate, HoustonCandidate>>
  /\ suggestions = <<HoustonAustinStreetCandidate>>

\* C21: a burst of keystrokes causes at most one request, and the request
\* carries the last query of the burst.  One timer is pending at most and
\* every call of the debounced function replaces it (C21_OneTimer), but
\* handleChange does not call it for every keystroke: a value of 1 or 2
\* trimmed characters, an emptied field, and a value that ends with a space
\* leave the timer of the earlier value running, and the request that goes
\* out carries the earlier value.
C21_OneTimer == Len(debounced) <= 1

C21_LastQueryOfBurst ==
  /\ []C21_OneTimer
  /\ [][(debounced # << >> /\ debounced' = << >> /\ issued' # issued)
          => Trim(debounced[1]) = Trim(address)]_vars

\* C22: a suggestion request that is issued after the device location was
\* acquired is biased with the device location, and its candidates are
\* shown nearest first.  The debounced function calls the
\* fetchAddressSuggestions of the first render, which reads userLocation as
\* null whatever was acquired since: the request is biased with the first
\* territory, or not at all, and the candidates keep the order of the
\* response.
C22_UsesDeviceLocation ==
  \A c \in fetches : c.deviceKnown => c.bias = "device"

\* C27: a query of at least 3 trimmed characters that waits for the settle
\* delay is fetched in the end, also when the device location is acquired
\* while it waits.  The cleanup of the effect of lines 527-531 cancels the
\* pending call when userLocation changes, and nothing calls the debounced
\* function again: the query is never fetched.
C27_QueryEventuallyFetched ==
  \A n \in 0..(MaxFetches - 1) :
    (debounced # << >> /\ Len(Trim(debounced[1])) >= 3 /\ issued = n) ~> (issued > n)

\* C23: after an initialization that failed, an operation that runs when
\* the storage works again gets a working connection: getDatabase opens the
\* database anew.  getDatabase keeps the promise of the first initDB, the
\* rejected one too; nothing sets dbPromise back to null after a rejection,
\* so every later operation of the page gets the same rejection.
C23_InitializationRetried ==
  dbPromise = "rejected" => getDatabase("resolved") = "resolved"

\* C24: territoryExists and addTerritory agree on what a duplicate is: over
\* a working connection, territoryExists(city, state) is true exactly when
\* addTerritory of the same city and state finds a row in the by_city_state
\* index and fails with 'already exists'.  territoryExists compares the
\* cities without regard to case (line 255); the index holds the city as it
\* was stored and is looked up with the city as it was passed (line 148).
C24_SameDuplicates ==
  \A city \in CityInputs, state \in StateInputs :
    territoryExists(city, state, "resolved")
      <=> ExistingTerritory(NormalizedTerritory([city |-> city, state |-> state], clock).city,
                            NormalizedTerritory([city |-> city, state |-> state], clock).state)

\* C25: when the submit of a new person ends with 'Failed to save person',
\* no person of this submit is stored.  The person is written before the
\* note (lines 608 and 613) and outside any common transaction: when addNote
\* rejects, the message is shown and the person stays stored.
C25_AllOrNothing ==
  [][(ret' # ret /\ ret'.op = "submit" /\ ret'.outcome = "failed")
       => ret'.id \notin DOMAIN people']_vars

\* C26: a person that addPerson has just stored has no notes: ids are not
\* used twice (C26_IdsNotReused), and no note that was stored before is found
\* under the new id.  The first holds.  addNote stores a note under any
\* personId, also one that the key generator has not given out yet; the
\* person who later gets that id is read with the note.
C26_IdsNotReused ==
  [][\A id \in DOMAIN people' \ DOMAIN people : id \notin usedIds]_vars

C26_NewPersonHasNoNotes ==
  [][\A id \in DOMAIN people' \ DOMAIN people :
       \A k \in DOMAIN notes' : notes'[k].personId # id]_vars


\* a suggestion fetch or a submit-time geocode request is still in flight
GeocodeInFlight ==
  \/ fetches # {}
  \/ submitting # << >> /\ submitting[1].stage = "geocoding"

\* C29: in the person form isGeocoding is true in every state in which a
\* suggestion fetch or a submit-time geocode request is in flight, and false
\* once none is, also when several fetches overlap
C29_GeocodingFlagTracksRequests == isGeocoding <=> GeocodeInFlight


(* ---------------------------------------------------------------------- *)
(* The settings page: 'Delete All Contacts'                                *)
(* ---------------------------------------------------------------------- *)
\* no 'Delete All Contacts' handler is running and none of its deletions is
\* still on its way
DeleteAllIdle == ~deleteAll.active /\ deleteAll.todo = {}

\* the frame of the delete-all steps
DeleteAllFrame ==
  UNCHANGED <<formVars, terrVars, home, clock, gpwCalls, gapCalls, exportFile,
              importCalls, submitCalls>>

\* settings page lines 413-423: the click; getAllPeople is awaited and, with
\* no contact, the handler reports 'No contacts to delete'; otherwise
\* deletePerson is called for every person read (lines 426-428)
DeleteAllStart ==
  /\ DeleteAllIdle /\ Quiet
  /\ IF DOMAIN people = {}
     THEN /\ ret' = [op |-> "deleteAll", ids |-> {}, outcome |-> "info"]
          /\ UNCHANGED deleteAll
     ELSE /\ ret' = NoResult
          /\ deleteAll' = [active |-> TRUE, ids |-> DOMAIN people, todo |-> DOMAIN people]
  /\ UNCHANGED <<storeVars, delCalls>>
  /\ DeleteAllFrame

\* deletePerson(id) of the delete-all, db.ts line 62: its notes are deleted
DeleteAllNotes(id) ==
  /\ id \in deleteAll.todo
  /\ deletePersonNotes(id)
  /\ delCalls' = delCalls \cup {id}
  /\ deleteAll' = [deleteAll EXCEPT !.todo = @ \ {id}]
  /\ ret' = NoResult
  /\ UNCHANGED <<people, nextPersonId, usedIds>>
  /\ DeleteAllFrame

\* settings page lines 426-430: every deletePerson has resolved, Promise.all
\* resolves and the handler reports success
DeleteAllDone ==
  /\ deleteAll.active
  /\ deleteAll.todo = {} /\ delCalls \cap deleteAll.ids = {}
  /\ ret' = [op |-> "deleteAll", ids |-> deleteAll.ids, outcome |-> "success"]
  /\ deleteAll' = [active |-> FALSE, ids |-> {}, todo |-> {}]
  /\ UNCHANGED <<storeVars, delCalls>>
  /\ DeleteAllFrame

\* settings page lines 431-433: the deletePerson of id rejects before it
\* deleted anything; Promise.all rejects, the handler reports the failure
\* and the other deletions go on
DeleteAllFails(id) ==
  /\ deleteAll.active
  /\ id \in deleteAll.todo
  /\ ret' = [op |-> "deleteAll", ids |-> deleteAll.ids, outcome |-> "failed"]
  /\ deleteAll' = [active |-> FALSE, ids |-> {}, todo |-> deleteAll.todo \ {id}]
  /\ UNCHANGED <<storeVars, delCalls>>
  /\ DeleteAllFrame

\* The settings page deleting every contact that the forms stored before.
DeleteAllNext ==
  \/ \E p \in PersonInputs : DeleteAllIdle /\ Quiet /\ SubmitNew(p, "", "none")
  \/ \E id \in PersonIds, n \in NoteContents :
       DeleteAllIdle /\ Quiet /\ NoteFormSubmit(id, n)
  \/ DeleteAllStart
  \/ \E id \in PersonIds : DeleteAllNotes(id)
  \/ \E id \in PersonIds : DeleteFinish(id)
  \/ DeleteAllDone
  \/ \E id \in PersonIds : DeleteAllFails(id)

DeleteAllSpec == Init /\ [][DeleteAllNext]_vars

\* C28: when 'Delete All Contacts' reports success, under every interleaving
\* of its deletions neither db.people nor db.notes holds a record of a person
\* that existed when the action started
C28_DeleteAllLeavesNothing ==
  (ret.op = "deleteAll" /\ ret.outcome = "success")
    => \A id \in ret.ids : id \notin DOMAIN people /\ NoteKeysOf(id) = {}

\* success was reported for two contacts after notes had been stored
C28_Witness ==
  /\ ret.op = "deleteAll" /\ ret.outcome = "success"
  /\ Cardinality(ret.ids) >= 2
  /\ nextNoteId > 1


(* ---------------------------------------------------------------------- *)
(* The contact list page: distance sorting and the 20-mile filter          *)
(* ---------------------------------------------------------------------- *)
\* toggleLocationSort with its line 216 left out
SortTurnedOffKeepsFilter(h) == [h EXCEPT !.sortByLocation = FALSE]

\* toggleLocationSort, part_002 lines 214-217: sorting is switched off
SortTurnedOff(h) ==
  [h EXCEPT !.sortByLocation = FALSE, !.showWithin20Miles = FALSE]

\* requestLocation, lines 119-130: without navigator.geolocation the error
\* is shown at once, otherwise getCurrentPosition is called
requestLocation(h, supported) ==
  IF supported
  THEN [h EXCEPT !.isRequestingLocation = TRUE]
  ELSE [h EXCEPT !.sortByLocation = FALSE, !.isRequestingLocation = FALSE]

\* the frame of the handlers of the contact list page
HomeFrame == UNCHANGED <<storeVars, callVars, terrVars, formVars, deleteAll>>

\* toggleLocationSort, lines 206-218; its button is disabled while a
\* location request is running (line 257)
toggleLocationSort(supported) ==
  /\ ~home.isRequestingLocation
  /\ home' = IF ~home.sortByLocation
             THEN IF ~home.userLocation
                  THEN requestLocation(home, supported)
                  ELSE [home EXCEPT !.sortByLocation = TRUE]
             ELSE SortTurnedOff(home)
  /\ HomeFrame

\* toggle20MileFilter, lines 220-222; its button is rendered only while
\* sortByLocation && userLocation (lines 273-282)
toggle20MileFilter ==
  /\ home.sortByLocation /\ home.userLocation
  /\ home' = [home EXCEPT !.showWithin20Miles = ~@]
  /\ HomeFrame

\* the success callback of getCurrentPosition, lines 132-143
HomeLocationSuccess(hasCoords) ==
  /\ home.isRequestingLocation
  /\ home' = IF hasCoords
             THEN [home EXCEPT !.userLocation = TRUE, !.sortByLocation = TRUE,
                               !.isRequestingLocation = FALSE]
             ELSE [home EXCEPT !.sortByLocation = FALSE,
                               !.isRequestingLocation = FALSE]
  /\ HomeFrame

\* the error callback of getCurrentPosition, lines 144-156
HomeLocationError ==
  /\ home.isRequestingLocation
  /\ home' = [home EXCEPT !.sortByLocation = FALSE, !.isRequestingLocation = FALSE]
  /\ HomeFrame

\* The contact list page with its buttons and the callbacks of the location
\* request, while contacts and notes are stored.
HomeNext ==
  \/ \E supported \in BOOLEAN : toggleLocationSort(supported)
  \/ toggle20MileFilter
  \/ \E hasCoords \in BOOLEAN : HomeLocationSuccess(hasCoords)
  \/ HomeLocationError
  \/ \E p \in PersonInputs : SubmitNew(p, "", "none")
  \/ \E id \in PersonIds, n \in NoteContents : NoteFormSubmit(id, n)

HomeSpec == Init /\ [][HomeNext]_vars

\* C30: on the contact list page the 20-mile filter is active only while
\* distance sorting is active and a device location is known
C30_FilterNeedsSortAndLocation ==
  home.showWithin20Miles => home.sortByLocation /\ home.userLocation

\* the filter has been switched on
C30_Witness ==
  home.showWithin20Miles /\ home.sortByLocation /\ home.userLocation


\* forms submitted without a note whose geocoding settles without a throw
\* (a throw leaves finalData as a null result does, part_001 lines 594-597)
EditForms == { i \in NoteLessForms : i[3] # "error" }

\* The person form adding and editing contacts and direct updatePerson
\* calls, while the clock moves; nothing is deleted.
UpdateNext ==
  \/ \E i \in EditForms : Quiet /\ SubmitNew(i[1], i[2], i[3])
  \/ \E id \in PersonIds, i \in EditForms :
       Quiet /\ SubmitEdit(id, i[1], i[2], i[3])
  \/ \E id \in PersonIds, u \in UpdateInputs : Quiet /\ UpdatePersonCall(id, u)
  \/ Tick

UpdateSpec == Init /\ [][UpdateNext]_vars

====
